---------------------------- MODULE Spec2Model ----------------------------
(***************************************************************************)
(* A model of kustomize-dot: the parser package (pkg/parser/parser.go),    *)
(* which turns a sequence of Kubernetes resources into a directed graph of *)
(* resources and their origins, and the front-ends that configure it.      *)
(*                                                                         *)
(* Go strings are TLA+ strings; they are taken apart and put together with *)
(* Len, Head, Tail, SubSeq and \o, which TLC evaluates on strings.         *)
(***************************************************************************)
EXTENDS Integers, Sequences, FiniteSets, TLC

VARIABLES
    pc,           \* where the program is: see the specifications below
    entry,        \* who builds the options: "New" (a library caller) or "plugin"
    config,       \* plugin mode: the pluginConfig read from the function config
    p,            \* the *Parser under construction / in use
    nopts,        \* number of options applied by New so far
    layoutGiven,  \* whether a WithLayoutDirection option was among the options
    resources,    \* the records Parse has taken from its input so far
    g,            \* the graph local to Parse
    out,          \* what Parse returned: [g, err], each {} (nil) or a singleton
    arg,          \* the input of the function under test, or of the command
    ret,          \* the last function call and its result
    cmd           \* what a command returned and wrote: [err, stdout, items]

vars == <<pc, entry, config, p, nopts, layoutGiven, resources, g, out, arg, ret, cmd>>

---------------------------------------------------------------------------
(* strings.ToLower, strings.TrimPrefix, fmt.Sprintf *)

UpperChars == "ABCDEFGHIJKLMNOPQRSTUVWXYZ"

LowerChars == "abcdefghijklmnopqrstuvwxyz"

\* the lower-case letter of each upper-case letter
LowerOf ==
    "A" :> "a" @@ "B" :> "b" @@ "C" :> "c" @@ "D" :> "d" @@ "E" :> "e" @@ "F" :> "f"
    @@ "G" :> "g" @@ "H" :> "h" @@ "I" :> "i" @@ "J" :> "j" @@ "K" :> "k" @@ "L" :> "l"
    @@ "M" :> "m" @@ "N" :> "n" @@ "O" :> "o" @@ "P" :> "p" @@ "Q" :> "q" @@ "R" :> "r"
    @@ "S" :> "s" @@ "T" :> "t" @@ "U" :> "u" @@ "V" :> "v" @@ "W" :> "w" @@ "X" :> "x"
    @@ "Y" :> "y" @@ "Z" :> "z"

\* the lower-case form of one character (a string of length 1)
LowerChar(c) == IF c \in DOMAIN LowerOf THEN LowerOf[c] ELSE c

RECURSIVE ToLower(_)
ToLower(s) ==
    IF s = "" THEN "" ELSE LowerChar(Head(s)) \o ToLower(Tail(s))

HasPrefix(s, prefix) ==
    /\ Len(s) >= Len(prefix)
    /\ SubSeq(s, 1, Len(prefix)) = prefix

TrimPrefix(s, prefix) ==
    IF HasPrefix(s, prefix) THEN SubSeq(s, Len(prefix) + 1, Len(s)) ELSE s

\* notClonedPrefix is the prefix added by kustomize for the origin annotation
notClonedPrefix == "notCloned/"

---------------------------------------------------------------------------
(* The naming functions of the parser *)

vertexNameFromResource_NoLower(r) ==
    IF r.namespace = ""
    THEN r.kind \o "/" \o r.name
    ELSE r.namespace \o "/" \o r.kind \o "/" \o r.name

vertexNameFromResource(r) ==
    LET namespace == r.namespace
        name      == r.name
        kind      == ToLower(r.kind)
    IN  IF namespace = ""
        THEN kind \o "/" \o name
        ELSE namespace \o "/" \o kind \o "/" \o name

vertexNameFromOrigin_RepoKeepsPrefix(origin) ==
    IF origin.ConfiguredIn # "" THEN origin.ConfiguredIn
    ELSE IF origin.Repo # "" THEN origin.Path
    ELSE TrimPrefix(origin.Path, notClonedPrefix)

vertexNameFromOrigin(origin) ==
    LET path == TrimPrefix(origin.Path, notClonedPrefix)
    IN  IF origin.ConfiguredIn # "" THEN origin.ConfiguredIn
        ELSE IF origin.Repo # "" THEN path
        ELSE path

edgeLabelFromOrigin_RepoFirst(origin) ==
    IF origin.Repo # ""
    THEN IF origin.Ref # ""
         THEN origin.Repo \o " (ref " \o origin.Ref \o ")"
         ELSE origin.Repo
    ELSE IF origin.ConfiguredIn # ""
    THEN origin.ConfiguredBy.APIVersion \o "/" \o origin.ConfiguredBy.Kind
    ELSE ""

edgeLabelFromOrigin(origin) ==
    IF origin.ConfiguredIn # ""
    THEN origin.ConfiguredBy.APIVersion \o "/" \o origin.ConfiguredBy.Kind
    ELSE IF origin.Repo # ""
    THEN IF origin.Ref # ""
         THEN origin.Repo \o " (ref " \o origin.Ref \o ")"
         ELSE origin.Repo
    ELSE ""

---------------------------------------------------------------------------
(* The Parser and its options *)

\* Go maps are functions from the keys present to their values
EmptyMap == [k \in {} |-> ""]

MapPut(m, key, val) ==
    [k \in DOMAIN m \cup {key} |-> IF k = key THEN val ELSE m[k]]

LayoutDirectionTB == "TB"

LayoutDirectionBT == "BT"

LayoutDirectionLR == "LR"

LayoutDirectionRL == "RL"

\* LayoutDirection.String
String(ld) == ld

\* New, before the options are applied
NewParser ==
    [ highlightKindMap      |-> EmptyMap,
      highlightNamespaceMap |-> EmptyMap,
      layoutDirection       |-> LayoutDirectionLR,
      dropResourceKinds     |-> <<>>,
      dropNamespaces        |-> <<>>,
      keepResourceKinds     |-> <<>>,
      keepNamespaces        |-> <<>> ]

\* a slip: the kind is stored as given
WithHighlightKind_NoLower(q, kind, color) ==
    [q EXCEPT !.highlightKindMap = MapPut(@, kind, color)]

\* the option closures: each takes the parser q and gives the parser it leaves
WithHighlightKind(q, kind, color) ==
    [q EXCEPT !.highlightKindMap = MapPut(@, ToLower(kind), color)]

\* a slip: the namespace option writes into the map of the kinds
WithHighlightNamespace_WritesKindMap(q, namespace, color) ==
    [q EXCEPT !.highlightKindMap = MapPut(@, ToLower(namespace), color)]

WithHighlightNamespace(q, namespace, color) ==
    [q EXCEPT !.highlightNamespaceMap = MapPut(@, ToLower(namespace), color)]

WithLayoutDirection(q, layout) ==
    [q EXCEPT !.layoutDirection = layout]

WithDropKind(q, kind) ==
    [q EXCEPT !.dropResourceKinds = Append(@, ToLower(kind))]

WithKeepKind(q, kind) ==
    [q EXCEPT !.keepResourceKinds = Append(@, ToLower(kind))]

WithDropNamespace(q, namespace) ==
    [q EXCEPT !.dropNamespaces = Append(@, ToLower(namespace))]

WithKeepNamespace(q, namespace) ==
    [q EXCEPT !.keepNamespaces = Append(@, ToLower(namespace))]

---------------------------------------------------------------------------
(* The keep/drop policy *)

\* for _, e := range list { if x == e { ... } }: whether the loop finds x
\* a slip: only the first entry of the list is looked at
Contains_FirstOnly(list, x) == Len(list) > 0 /\ list[1] = x

Contains(list, x) == \E i \in 1..Len(list) : list[i] = x

\* a slip: the keep rules are looked at first, and a keep match ends the decision
shouldDropResource_KeepFirst(q, r) ==
    LET kind      == ToLower(r.kind)
        namespace == ToLower(r.namespace)
    IN  IF Contains(q.keepNamespaces, namespace) \/ Contains(q.keepResourceKinds, kind)
        THEN FALSE
        ELSE \/ Contains(q.dropNamespaces, namespace)
             \/ Contains(q.dropResourceKinds, kind)
             \/ Len(q.keepNamespaces) > 0
             \/ Len(q.keepResourceKinds) > 0

\* a slip: keep-kind is only looked at when keep-namespace is set as well
shouldDropResource_NoKindOnlyCase(q, r) ==
    LET kind      == ToLower(r.kind)
        namespace == ToLower(r.namespace)
        keepNamespaceIsSet == Len(q.keepNamespaces) > 0
        keepKindIsSet      == Len(q.keepResourceKinds) > 0
        foundKeepNamespace == keepNamespaceIsSet /\ Contains(q.keepNamespaces, namespace)
        foundKeepKind      == keepKindIsSet /\ Contains(q.keepResourceKinds, kind)
    IN  IF Contains(q.dropNamespaces, namespace) THEN TRUE
        ELSE IF Contains(q.dropResourceKinds, kind) THEN TRUE
        ELSE IF keepNamespaceIsSet /\ ~foundKeepNamespace THEN TRUE
        ELSE IF keepNamespaceIsSet /\ keepKindIsSet /\ foundKeepNamespace /\ ~foundKeepKind
             THEN TRUE
        ELSE FALSE

shouldDropResource(q, r) ==
    LET kind      == ToLower(r.kind)
        namespace == ToLower(r.namespace)
        keepNamespaceIsSet == Len(q.keepNamespaces) > 0
        keepKindIsSet      == Len(q.keepResourceKinds) > 0
        foundKeepNamespace == keepNamespaceIsSet /\ Contains(q.keepNamespaces, namespace)
        foundKeepKind      == keepKindIsSet /\ Contains(q.keepResourceKinds, kind)
    IN  \* Drop resource, if it is part of any drop-namespaces
        IF Contains(q.dropNamespaces, namespace) THEN TRUE
        \* Drop resource, if it is part of any drop-resource-kinds
        ELSE IF Contains(q.dropResourceKinds, kind) THEN TRUE
        \* the switch
        ELSE IF keepNamespaceIsSet /\ ~foundKeepNamespace THEN TRUE
        ELSE IF keepNamespaceIsSet /\ keepKindIsSet /\ foundKeepNamespace /\ ~foundKeepKind
             THEN TRUE
        ELSE IF keepKindIsSet /\ ~foundKeepKind THEN TRUE
        ELSE FALSE

---------------------------------------------------------------------------
(* Highlights *)

\* a variant: the namespace colour is written last
applyHighlights_NamespaceLast(q, attrs, r) ==
    LET namespace == ToLower(r.namespace)
        kind      == ToLower(r.kind)
        a1 == IF kind \in DOMAIN q.highlightKindMap
              THEN MapPut(MapPut(attrs, "color", q.highlightKindMap[kind]),
                          "fillcolor", q.highlightKindMap[kind])
              ELSE attrs
    IN  IF namespace \in DOMAIN q.highlightNamespaceMap
        THEN MapPut(MapPut(a1, "color", q.highlightNamespaceMap[namespace]),
                    "fillcolor", q.highlightNamespaceMap[namespace])
        ELSE a1

\* a slip: fillcolor is not written
applyHighlights_ColorOnly(q, attrs, r) ==
    LET namespace == ToLower(r.namespace)
        kind      == ToLower(r.kind)
        a1 == IF namespace \in DOMAIN q.highlightNamespaceMap
              THEN MapPut(attrs, "color", q.highlightNamespaceMap[namespace])
              ELSE attrs
    IN  IF kind \in DOMAIN q.highlightKindMap
        THEN MapPut(a1, "color", q.highlightKindMap[kind])
        ELSE a1

\* a slip: a matching entry replaces the attributes by the two colour keys
applyHighlights_FreshAttributes(q, attrs, r) ==
    LET namespace == ToLower(r.namespace)
        kind      == ToLower(r.kind)
        a1 == IF namespace \in DOMAIN q.highlightNamespaceMap
              THEN MapPut(MapPut(EmptyMap, "color", q.highlightNamespaceMap[namespace]),
                          "fillcolor", q.highlightNamespaceMap[namespace])
              ELSE attrs
    IN  IF kind \in DOMAIN q.highlightKindMap
        THEN MapPut(MapPut(EmptyMap, "color", q.highlightKindMap[kind]),
                    "fillcolor", q.highlightKindMap[kind])
        ELSE a1

\* applyHighlights on the DotAttributes attrs of vertex u: the attributes it leaves
applyHighlights(q, attrs, r) ==
    LET namespace == ToLower(r.namespace)
        kind      == ToLower(r.kind)
        \* First we paint resources by namespace
        a1 == IF namespace \in DOMAIN q.highlightNamespaceMap
              THEN MapPut(MapPut(attrs, "color", q.highlightNamespaceMap[namespace]),
                          "fillcolor", q.highlightNamespaceMap[namespace])
              ELSE attrs
    IN  \* Then we paint resources by kind
        IF kind \in DOMAIN q.highlightKindMap
        THEN MapPut(MapPut(a1, "color", q.highlightKindMap[kind]),
                    "fillcolor", q.highlightKindMap[kind])
        ELSE a1

---------------------------------------------------------------------------
(* The graph (gopkg.in/dnaeon/go-graph.v1): vertices keyed by name, each    *)
(* with its DotAttributes; the edges in the order added, each with its     *)
(* DotAttributes; and the DotAttributes of the graph itself.               *)

\* graph.New[string](graph.KindDirected)
GraphNew == [vertices |-> EmptyMap, edges |-> <<>>, DotAttributes |-> EmptyMap]

\* g.AddVertex(name): adding a name the graph holds is a no-op
AddVertex(gr, name) ==
    IF name \in DOMAIN gr.vertices
    THEN gr
    ELSE [gr EXCEPT !.vertices =
             [n \in DOMAIN gr.vertices \cup {name} |->
                 IF n = name THEN EmptyMap ELSE gr.vertices[n]]]

\* e := g.AddEdge(from, to); e.DotAttributes["label"] = label
AddEdgeLabelled(gr, from, to, label) ==
    [gr EXCEPT !.edges =
        Append(@, [from |-> from, to |-> to,
                   DotAttributes |-> MapPut(EmptyMap, "label", label)])]

\* g.GetVertices(), g.GetEdges(): what the tests count
GetVertices(gr) == DOMAIN gr.vertices

GetEdges(gr) == gr.edges

---------------------------------------------------------------------------
(* Records: a resource.Resource as the parser reads it.  origin is what    *)
(* r.GetOrigin() gives: tag "ok" with the Origin's fields, tag "nil" for   *)
(* no origin annotation, tag "err" for an annotation that cannot be read.  *)

NoConfiguredBy == [APIVersion |-> "", Kind |-> ""]

Origin(path, repo, ref, configuredIn, configuredBy) ==
    [tag |-> "ok", Path |-> path, Repo |-> repo, Ref |-> ref,
     ConfiguredIn |-> configuredIn, ConfiguredBy |-> configuredBy]

NilOrigin ==
    [tag |-> "nil", Path |-> "", Repo |-> "", Ref |-> "",
     ConfiguredIn |-> "", ConfiguredBy |-> NoConfiguredBy]

ErrOrigin ==
    [tag |-> "err", Path |-> "", Repo |-> "", Ref |-> "",
     ConfiguredIn |-> "", ConfiguredBy |-> NoConfiguredBy]

Resource(kind, namespace, name, origin) ==
    [kind |-> kind, namespace |-> namespace, name |-> name, origin |-> origin]

\* what Parse returns
ParseOk(gr) == [g |-> {gr}, err |-> {}]

ParseErr(e) == [g |-> {}, err |-> {e}]

NotReturned == [g |-> {}, err |-> {}]

---------------------------------------------------------------------------
(* Values of the variables a specification does not use *)

NoArg == [r |-> Resource("", "", "", NilOrigin), origin |-> NilOrigin]

NoRet == [fn |-> "", val |-> ""]

NoConfig == [Spec |-> [Layout |-> ""]]

IdleFrontEnd ==
    /\ entry = "New"
    /\ config = NoConfig
    /\ layoutGiven = FALSE

IdleBuild ==
    /\ resources = <<>>
    /\ g = GraphNew
    /\ out = NotReturned

\* no command has returned or written anything
NoCmd == [err |-> {}, stdout |-> <<>>, items |-> <<>>]

IdleCommand == cmd = NoCmd

---------------------------------------------------------------------------
(* SpecNaming: the naming functions applied to a record and to an Origin   *)

NamingKinds == {"ConfigMap", "Service", "namespace"}

NamingNamespaces == {"", "default", "Monitoring"}

NamingNames == {"the-map", "The-Map"}

NamingRecords ==
    { Resource(k, ns, n, NilOrigin) :
        k \in NamingKinds, ns \in NamingNamespaces, n \in NamingNames }

Paths == {"", "foo.yaml", "notCloned/foo.yaml", "notCloned/notCloned/foo.yaml"}

Repos == {"", "github.com/dnaeon/kustomize-dot"}

Refs == {"", "v1"}

ConfiguredIns == {"", "foo"}

ConfiguredBys == {NoConfiguredBy, [APIVersion |-> "v1", Kind |-> "my-generator"]}

Origins ==
    { Origin(path, repo, ref, cin, cby) :
        path \in Paths, repo \in Repos, ref \in Refs,
        cin \in ConfiguredIns, cby \in ConfiguredBys }

InitNaming ==
    /\ IdleCommand
    /\ pc = "fn"
    /\ IdleFrontEnd
    /\ IdleBuild
    /\ p = NewParser
    /\ nopts = 0
    /\ arg \in [r : NamingRecords, origin : Origins]
    /\ ret = NoRet

CallVertexNameFromResource ==
    /\ pc = "fn"
    /\ ret' = [fn |-> "vertexNameFromResource", val |-> vertexNameFromResource(arg.r)]
    /\ UNCHANGED <<pc, entry, config, p, nopts, layoutGiven, resources, g, out, arg, cmd>>

CallVertexNameFromOrigin ==
    /\ pc = "fn"
    /\ ret' = [fn |-> "vertexNameFromOrigin", val |-> vertexNameFromOrigin(arg.origin)]
    /\ UNCHANGED <<pc, entry, config, p, nopts, layoutGiven, resources, g, out, arg, cmd>>

CallEdgeLabelFromOrigin ==
    /\ pc = "fn"
    /\ ret' = [fn |-> "edgeLabelFromOrigin", val |-> edgeLabelFromOrigin(arg.origin)]
    /\ UNCHANGED <<pc, entry, config, p, nopts, layoutGiven, resources, g, out, arg, cmd>>

NextNaming ==
    \/ CallVertexNameFromResource
    \/ CallVertexNameFromOrigin
    \/ CallEdgeLabelFromOrigin

SpecNaming == InitNaming /\ [][NextNaming]_vars

\* whether b is a with its upper-case letters, and nothing else, lower-cased
IsLowerOf(a, b) ==
    /\ Len(b) = Len(a)
    /\ \A i \in 1..Len(a) :
          LET ca == SubSeq(a, i, i)
              cb == SubSeq(b, i, i)
          IN  \/ \E j \in 1..Len(UpperChars) :
                    /\ ca = SubSeq(UpperChars, j, j)
                    /\ cb = SubSeq(LowerChars, j, j)
              \/ /\ \A j \in 1..Len(UpperChars) : ca # SubSeq(UpperChars, j, j)
                 /\ cb = ca

\* C1: vertexNameFromResource returns "{lower(kind)}/{name}" for a record with an
\* empty namespace and "{namespace}/{lower(kind)}/{name}" otherwise; namespace and
\* name appear in the result unchanged, only the kind is lower-cased.
C1_VertexNameFromResource ==
    ret.fn = "vertexNameFromResource" =>
        LET r   == arg.r
            n   == ret.val
            off == IF r.namespace = "" THEN 0 ELSE Len(r.namespace) + 1
        IN  /\ Len(n) = off + Len(r.kind) + 1 + Len(r.name)
            /\ r.namespace # "" =>
                  /\ SubSeq(n, 1, Len(r.namespace)) = r.namespace
                  /\ SubSeq(n, off, off) = "/"
            /\ IsLowerOf(r.kind, SubSeq(n, off + 1, off + Len(r.kind)))
            /\ SubSeq(n, off + Len(r.kind) + 1, off + Len(r.kind) + 1) = "/"
            /\ SubSeq(n, off + Len(r.kind) + 2, Len(n)) = r.name

\* C1 witness: the name of a namespaced record whose kind, namespace and name all
\* hold upper-case letters has been computed.
C1_Witness ==
    /\ ret.fn = "vertexNameFromResource"
    /\ arg.r.namespace # ""
    /\ arg.r.namespace # ToLower(arg.r.namespace)
    /\ arg.r.kind # ToLower(arg.r.kind)
    /\ arg.r.name # ToLower(arg.r.name)
    /\ ret.val = "Monitoring/configmap/The-Map"

\* C6: vertexNameFromOrigin returns ConfiguredIn verbatim when it is non-empty
\* (whatever Repo is); otherwise Path with one leading "notCloned/" removed,
\* whether or not Repo is set; Ref never changes the name.
C6_VertexNameFromOrigin ==
    ret.fn = "vertexNameFromOrigin" =>
        LET o == arg.origin
        IN  /\ o.ConfiguredIn # "" => ret.val = o.ConfiguredIn
            /\ o.ConfiguredIn = "" =>
                  IF HasPrefix(o.Path, "notCloned/")
                  THEN "notCloned/" \o ret.val = o.Path
                  ELSE ret.val = o.Path
            /\ \A ref \in Refs \cup {"main"} :
                  vertexNameFromOrigin([o EXCEPT !.Ref = ref]) = ret.val

\* C6 witness: the name of a remote origin (Repo and Ref set, no ConfiguredIn)
\* whose Path starts with "notCloned/notCloned/" has been computed.
C6_Witness ==
    /\ ret.fn = "vertexNameFromOrigin"
    /\ arg.origin.ConfiguredIn = ""
    /\ arg.origin.Repo # ""
    /\ arg.origin.Ref # ""
    /\ arg.origin.Path = "notCloned/notCloned/foo.yaml"
    /\ ret.val = "notCloned/foo.yaml"

\* C7: edgeLabelFromOrigin: with ConfiguredIn non-empty the label is
\* "{ConfiguredBy.APIVersion}/{ConfiguredBy.Kind}" (Repo and Ref ignored); else
\* with Repo non-empty it is Repo, or "{Repo} (ref {Ref})" when Ref is non-empty;
\* otherwise it is "" (a Ref without a Repo is ignored).
C7_EdgeLabelFromOrigin ==
    ret.fn = "edgeLabelFromOrigin" =>
        LET o == arg.origin
        IN  /\ o.ConfiguredIn # "" =>
                  ret.val = o.ConfiguredBy.APIVersion \o "/" \o o.ConfiguredBy.Kind
            /\ (o.ConfiguredIn = "" /\ o.Repo # "" /\ o.Ref = "") => ret.val = o.Repo
            /\ (o.ConfiguredIn = "" /\ o.Repo # "" /\ o.Ref # "") =>
                  ret.val = o.Repo \o " (ref " \o o.Ref \o ")"
            /\ (o.ConfiguredIn = "" /\ o.Repo = "") => ret.val = ""

\* C7 witness: the label of an origin with ConfiguredIn, Repo and Ref all set has
\* been computed, and it is the generator's "v1/my-generator".
C7_Witness ==
    /\ ret.fn = "edgeLabelFromOrigin"
    /\ arg.origin.ConfiguredIn # ""
    /\ arg.origin.Repo # ""
    /\ arg.origin.Ref # ""
    /\ ret.val = "v1/my-generator"

---------------------------------------------------------------------------
(* New(opts...): the options are applied one by one, in the order given.   *)
(* Each action below is one turn of New's loop, applying one option.       *)

\* the most options New is given: under SpecPolicy, and under Spec
MaxPolicyOpts == 3

MaxOpts == 2

OptDropKind(kinds, max) ==
    /\ pc = "new"
    /\ nopts < max
    /\ \E kind \in kinds : p' = WithDropKind(p, kind)
    /\ nopts' = nopts + 1
    /\ UNCHANGED <<pc, entry, config, layoutGiven, resources, g, out, arg, ret, cmd>>

OptKeepKind(kinds, max) ==
    /\ pc = "new"
    /\ nopts < max
    /\ \E kind \in kinds : p' = WithKeepKind(p, kind)
    /\ nopts' = nopts + 1
    /\ UNCHANGED <<pc, entry, config, layoutGiven, resources, g, out, arg, ret, cmd>>

OptDropNamespace(namespaces, max) ==
    /\ pc = "new"
    /\ nopts < max
    /\ \E namespace \in namespaces : p' = WithDropNamespace(p, namespace)
    /\ nopts' = nopts + 1
    /\ UNCHANGED <<pc, entry, config, layoutGiven, resources, g, out, arg, ret, cmd>>

OptKeepNamespace(namespaces, max) ==
    /\ pc = "new"
    /\ nopts < max
    /\ \E namespace \in namespaces : p' = WithKeepNamespace(p, namespace)
    /\ nopts' = nopts + 1
    /\ UNCHANGED <<pc, entry, config, layoutGiven, resources, g, out, arg, ret, cmd>>

OptHighlightKind(kinds, colors, max) ==
    /\ pc = "new"
    /\ nopts < max
    /\ \E kind \in kinds, color \in colors : p' = WithHighlightKind(p, kind, color)
    /\ nopts' = nopts + 1
    /\ UNCHANGED <<pc, entry, config, layoutGiven, resources, g, out, arg, ret, cmd>>

OptHighlightNamespace(namespaces, colors, max) ==
    /\ pc = "new"
    /\ nopts < max
    /\ \E namespace \in namespaces, color \in colors :
          p' = WithHighlightNamespace(p, namespace, color)
    /\ nopts' = nopts + 1
    /\ UNCHANGED <<pc, entry, config, layoutGiven, resources, g, out, arg, ret, cmd>>

\* a library caller passes WithLayoutDirection; the plugin front-end has already
\* put its own first (PluginOptions)
OptLayoutDirection(layouts, max) ==
    /\ pc = "new"
    /\ entry = "New"
    /\ nopts < max
    /\ \E layout \in layouts : p' = WithLayoutDirection(p, layout)
    /\ nopts' = nopts + 1
    /\ layoutGiven' = TRUE
    /\ UNCHANGED <<pc, entry, config, resources, g, out, arg, ret, cmd>>

---------------------------------------------------------------------------
(* SpecPolicy: a parser is configured with keep and drop options, then     *)
(* shouldDropResource is called on a record.                               *)

PolicyKinds == {"ConfigMap", "Namespace"}

PolicyNamespaces == {"", "default", "Monitoring"}

PolicyRecords ==
    { Resource(k, ns, "x", NilOrigin) : k \in PolicyKinds, ns \in PolicyNamespaces }

\* what the options are given: each matches a record only once lower-cased
PolicyKindArgs == {"configmap", "Namespace", "Secret"}

PolicyNamespaceArgs == {"Default", "monitoring", "foobar"}

InitPolicy ==
    /\ IdleCommand
    /\ pc = "new"
    /\ IdleFrontEnd
    /\ IdleBuild
    /\ p = NewParser
    /\ nopts = 0
    /\ arg \in [r : PolicyRecords, origin : {NilOrigin}]
    /\ ret = NoRet

CallShouldDropResource ==
    /\ pc = "new"
    /\ pc' = "called"
    /\ ret' = [fn |-> "shouldDropResource", val |-> shouldDropResource(p, arg.r)]
    /\ UNCHANGED <<entry, config, p, nopts, layoutGiven, resources, g, out, arg, cmd>>

NextPolicy ==
    \/ OptDropKind(PolicyKindArgs, MaxPolicyOpts)
    \/ OptKeepKind(PolicyKindArgs, MaxPolicyOpts)
    \/ OptDropNamespace(PolicyNamespaceArgs, MaxPolicyOpts)
    \/ OptKeepNamespace(PolicyNamespaceArgs, MaxPolicyOpts)
    \/ CallShouldDropResource

SpecPolicy == InitPolicy /\ [][NextPolicy]_vars

\* the entries of a list, as a set
Entries(list) == { list[i] : i \in 1..Len(list) }

\* a drop rule matches the record
DropRuleMatches(q, r) ==
    \/ ToLower(r.namespace) \in Entries(q.dropNamespaces)
    \/ ToLower(r.kind) \in Entries(q.dropResourceKinds)

C3_DropBeatsKeep ==
    (ret.fn = "shouldDropResource" /\ DropRuleMatches(p, arg.r)) => ret.val = TRUE

\* C3 witness: a record matched by a drop rule and by a keep-namespace and a
\* keep-kind entry has been decided.
C3_Witness ==
    /\ ret.fn = "shouldDropResource"
    /\ DropRuleMatches(p, arg.r)
    /\ ToLower(arg.r.namespace) \in Entries(p.keepNamespaces)
    /\ ToLower(arg.r.kind) \in Entries(p.keepResourceKinds)
    /\ ret.val = TRUE

\* C4: a cluster-scoped record (empty namespace) is immune to keep-namespace: with
\* keepNamespaces non-empty, no drop rule matching, and keepKinds empty or holding
\* its kind, shouldDropResource returns false.
C4_ClusterScopedImmune ==
    ( /\ ret.fn = "shouldDropResource"
      /\ arg.r.namespace = ""
      /\ p.keepNamespaces # <<>>
      /\ ~DropRuleMatches(p, arg.r)
      /\ \/ p.keepResourceKinds = <<>>
         \/ ToLower(arg.r.kind) \in Entries(p.keepResourceKinds) )
    => ret.val = FALSE

---------------------------------------------------------------------------
(* Spec: a parser is configured, by a library caller through New(opts...)  *)
(* or by the plugin front-end from its pluginSpec, and Parse builds the    *)
(* graph, one record per turn of its loop.                                 *)
(*   pc = "plugin"  the plugin filter is about to build its options        *)
(*   pc = "new"     New is applying options                                *)
(*   pc = "loop"    Parse is in its loop                                   *)
(*   pc = "done"    Parse returned (g, nil)                                *)
(*   pc = "failed"  Parse returned (nil, err)                              *)

\* the most records Parse is given
MaxRecords == 2

Kinds == {"ConfigMap", "Service"}

RemoteOrigin ==
    Origin("notCloned/app.yaml", "github.com/dnaeon/kustomize-dot", "v1", "", NoConfiguredBy)

\* the records of an input: a namespaced ConfigMap and Service whose origin is a
\* remote file or cannot be read, a ConfigMap with no namespace, and a Namespace
\* with no origin
Records ==
    { Resource(k, "default", "app", o) : k \in Kinds, o \in {ErrOrigin, RemoteOrigin} }
    \cup {Resource("ConfigMap", "", "app", RemoteOrigin),
          Resource("Namespace", "", "default", NilOrigin)}

DropKindArgs == {"Service"}

KeepKindArgs == {"configmap"}

DropNamespaceArgs == {"Default"}

KeepNamespaceArgs == {"default"}

HighlightKindArgs == {"ConfigMap"}

HighlightNamespaceArgs == {"default"}

Colors == {"red", "blue"}

NamespaceColors == {"blue"}

LayoutArgs == {LayoutDirectionTB, LayoutDirectionLR}

\* the layout field of the plugin's spec; "" is what a spec with no layout key
\* unmarshals to
PluginLayouts == {"", "sideways"}

Init ==
    /\ entry \in {"New", "plugin"}
    /\ config \in [Spec : [Layout : PluginLayouts]]
    /\ entry = "New" => config = NoConfig
    /\ pc = IF entry = "plugin" THEN "plugin" ELSE "new"
    /\ p = NewParser
    /\ nopts = 0
    /\ layoutGiven = FALSE
    /\ IdleBuild
    /\ IdleCommand
    /\ arg = NoArg
    /\ ret = NoRet

\* execPluginCommand: the first option is always WithLayoutDirection of the
\* spec's layout field, whatever it holds
PluginOptions ==
    /\ pc = "plugin"
    /\ p' = WithLayoutDirection(p, config.Spec.Layout)
    /\ pc' = "new"
    /\ UNCHANGED <<entry, config, nopts, layoutGiven, resources, g, out, arg, ret, cmd>>

\* r.GetOrigin()
GetOrigin(r) == r.origin

\* a variant: the failing return hands back the graph built so far
ParseRecordInto_PartialGraph(q, gr, r) ==
    IF shouldDropResource(q, r)
    THEN [g |-> gr, out |-> NotReturned]
    ELSE LET uName == vertexNameFromResource(r)
             g1    == AddVertex(gr, uName)
             g2    == [g1 EXCEPT !.vertices[uName] = applyHighlights(q, @, r)]
             origin == GetOrigin(r)
         IN  IF origin.tag = "err"
             THEN [g |-> g2, out |-> [g |-> {g2}, err |-> {"GetOrigin"}]]
             ELSE IF origin.tag = "nil"
             THEN [g |-> g2, out |-> NotReturned]
             ELSE LET vName == vertexNameFromOrigin(origin)
                      g3    == AddVertex(g2, vName)
                  IN  [g |-> AddEdgeLabelled(g3, uName, vName, edgeLabelFromOrigin(origin)),
                       out |-> NotReturned]

\* a variant: the origin vertex is added before the policy is asked
ParseRecordInto_OriginFirst(q, gr, r) ==
    LET origin == GetOrigin(r)
        g0     == IF origin.tag = "ok"
                  THEN AddVertex(gr, vertexNameFromOrigin(origin))
                  ELSE gr
    IN  IF shouldDropResource(q, r)
        THEN [g |-> g0, out |-> NotReturned]
        ELSE LET uName == vertexNameFromResource(r)
                 g1    == AddVertex(g0, uName)
                 g2    == [g1 EXCEPT !.vertices[uName] = applyHighlights(q, @, r)]
             IN  IF origin.tag = "err"
                 THEN [g |-> g2, out |-> ParseErr("GetOrigin")]
                 ELSE IF origin.tag = "nil"
                 THEN [g |-> g2, out |-> NotReturned]
                 ELSE [g |-> AddEdgeLabelled(g2, uName, vertexNameFromOrigin(origin),
                                             edgeLabelFromOrigin(origin)),
                       out |-> NotReturned]

\* a slip: the edge runs from the origin to the resource
ParseRecordInto_EdgeReversed(q, gr, r) ==
    IF shouldDropResource(q, r)
    THEN [g |-> gr, out |-> NotReturned]
    ELSE LET uName == vertexNameFromResource(r)
             g1    == AddVertex(gr, uName)
             g2    == [g1 EXCEPT !.vertices[uName] = applyHighlights(q, @, r)]
             origin == GetOrigin(r)
         IN  IF origin.tag = "err"
             THEN [g |-> g2, out |-> ParseErr("GetOrigin")]
             ELSE IF origin.tag = "nil"
             THEN [g |-> g2, out |-> NotReturned]
             ELSE LET vName == vertexNameFromOrigin(origin)
                      g3    == AddVertex(g2, vName)
                  IN  [g |-> AddEdgeLabelled(g3, vName, uName, edgeLabelFromOrigin(origin)),
                       out |-> NotReturned]

\* a slip: the origin is read, and its error returned, before the policy is asked
ParseRecordInto_OriginErrorFirst(q, gr, r) ==
    LET origin == GetOrigin(r)
    IN  IF origin.tag = "err"
        THEN [g |-> gr, out |-> ParseErr("GetOrigin")]
        ELSE IF shouldDropResource(q, r)
        THEN [g |-> gr, out |-> NotReturned]
        ELSE LET uName == vertexNameFromResource(r)
                 g1    == AddVertex(gr, uName)
                 g2    == [g1 EXCEPT !.vertices[uName] = applyHighlights(q, @, r)]
             IN  IF origin.tag = "nil"
                 THEN [g |-> g2, out |-> NotReturned]
                 ELSE LET vName == vertexNameFromOrigin(origin)
                          g3    == AddVertex(g2, vName)
                      IN  [g |-> AddEdgeLabelled(g3, uName, vName,
                                                 edgeLabelFromOrigin(origin)),
                           out |-> NotReturned]

\* a slip: an origin whose vertex name is empty is refused
ParseRecordInto_EmptyNameFails(q, gr, r) ==
    IF shouldDropResource(q, r)
    THEN [g |-> gr, out |-> NotReturned]
    ELSE LET uName == vertexNameFromResource(r)
             g1    == AddVertex(gr, uName)
             g2    == [g1 EXCEPT !.vertices[uName] = applyHighlights(q, @, r)]
             origin == GetOrigin(r)
         IN  IF origin.tag = "err"
             THEN [g |-> g2, out |-> ParseErr("GetOrigin")]
             ELSE IF origin.tag = "nil"
             THEN [g |-> g2, out |-> NotReturned]
             ELSE LET vName == vertexNameFromOrigin(origin)
                      g3    == AddVertex(g2, vName)
                  IN  IF vName = ""
                      THEN [g |-> g2, out |-> ParseErr("empty vertex name")]
                      ELSE [g |-> AddEdgeLabelled(g3, uName, vName,
                                                  edgeLabelFromOrigin(origin)),
                            out |-> NotReturned]

\* a slip: once a highlight is configured, a record with no highlight entry is
\* left out of the graph
ParseRecordInto_HighlightedOnly(q, gr, r) ==
    IF \/ shouldDropResource(q, r)
       \/ /\ q.highlightKindMap # EmptyMap \/ q.highlightNamespaceMap # EmptyMap
          /\ applyHighlights(q, EmptyMap, r) = EmptyMap
    THEN [g |-> gr, out |-> NotReturned]
    ELSE LET uName == vertexNameFromResource(r)
             g1    == AddVertex(gr, uName)
             g2    == [g1 EXCEPT !.vertices[uName] = applyHighlights(q, @, r)]
             origin == GetOrigin(r)
         IN  IF origin.tag = "err"
             THEN [g |-> g2, out |-> ParseErr("GetOrigin")]
             ELSE IF origin.tag = "nil"
             THEN [g |-> g2, out |-> NotReturned]
             ELSE LET vName == vertexNameFromOrigin(origin)
                      g3    == AddVertex(g2, vName)
                  IN  [g |-> AddEdgeLabelled(g3, uName, vName, edgeLabelFromOrigin(origin)),
                       out |-> NotReturned]

\* one turn of Parse's loop on record r, for parser q and graph gr: the graph it
\* leaves, and what Parse returns if the turn returns (NotReturned if it goes on)
ParseRecordInto(q, gr, r) ==
    IF shouldDropResource(q, r)
    THEN [g |-> gr, out |-> NotReturned]
    ELSE \* Add u to the graph, and paint the vertex
         LET uName == vertexNameFromResource(r)
             g1    == AddVertex(gr, uName)
             g2    == [g1 EXCEPT !.vertices[uName] = applyHighlights(q, @, r)]
             \* Add v to the graph, which represents the resource origin
             origin == GetOrigin(r)
         IN  IF origin.tag = "err"
             THEN [g |-> g2, out |-> ParseErr("GetOrigin")]
             \* No origin metadata found, skip it
             ELSE IF origin.tag = "nil"
             THEN [g |-> g2, out |-> NotReturned]
             ELSE LET vName == vertexNameFromOrigin(origin)
                      g3    == AddVertex(g2, vName)
                  IN  [g |-> AddEdgeLabelled(g3, uName, vName, edgeLabelFromOrigin(origin)),
                       out |-> NotReturned]

\* Parse is called: g := graph.New[string](graph.KindDirected)
ParseStart ==
    /\ pc = "new"
    /\ pc' = "loop"
    /\ g' = GraphNew
    /\ UNCHANGED <<entry, config, p, nopts, layoutGiven, resources, out, arg, ret, cmd>>

\* for _, r := range resources: the next record of the input is r, one of records
ParseRecordOf(records, max) ==
    /\ pc = "loop"
    /\ Len(resources) < max
    /\ \E r \in records :
          LET step == ParseRecordInto(p, g, r)
          IN  /\ resources' = Append(resources, r)
              /\ g' = step.g
              /\ out' = step.out
              /\ pc' = IF step.out = NotReturned THEN "loop" ELSE "failed"
    /\ UNCHANGED <<entry, config, p, nopts, layoutGiven, arg, ret, cmd>>

ParseRecord == ParseRecordOf(Records, MaxRecords)

\* a slip: the default direction is written, whatever is configured
ParseFinish_AlwaysLR(q, gr) ==
    [gr EXCEPT !.DotAttributes = MapPut(@, "rankdir", String(LayoutDirectionLR))]

\* the input is exhausted: Set direction of graph layout
ParseFinish(q, gr) ==
    [gr EXCEPT !.DotAttributes = MapPut(@, "rankdir", String(q.layoutDirection))]

ParseReturn ==
    /\ pc = "loop"
    /\ g' = ParseFinish(p, g)
    /\ out' = ParseOk(g')
    /\ pc' = "done"
    /\ UNCHANGED <<entry, config, p, nopts, layoutGiven, resources, arg, ret, cmd>>

Next ==
    \/ PluginOptions
    \/ OptHighlightKind(HighlightKindArgs, Colors, MaxOpts)
    \/ OptHighlightNamespace(HighlightNamespaceArgs, NamespaceColors, MaxOpts)
    \/ OptLayoutDirection(LayoutArgs, MaxOpts)
    \/ OptDropKind(DropKindArgs, MaxOpts)
    \/ OptKeepKind(KeepKindArgs, MaxOpts)
    \/ OptDropNamespace(DropNamespaceArgs, MaxOpts)
    \/ OptKeepNamespace(KeepNamespaceArgs, MaxOpts)
    \/ ParseStart
    \/ ParseRecord
    \/ ParseReturn

Spec == Init /\ [][Next]_vars

---------------------------------------------------------------------------
(* Claims about the build *)

\* the records taken so far that the policy keeps
Kept == { i \in 1..Len(resources) : ~shouldDropResource(p, resources[i]) }

\* the kept records whose origin could be read and is not nil
KeptWithOrigin == { i \in Kept : resources[i].origin.tag = "ok" }

\* the graph Parse works on, and the graph it returned if it returned one
GraphsInHand == IF pc \in {"loop", "done", "failed"} THEN {g} \cup out.g ELSE out.g

\* C5: at every point of a build and in the returned graph, every vertex is the
\* resource vertex of a kept record already taken or the origin vertex of one; a
\* dropped record leaves no vertex, no edge and no attribute: every edge runs from
\* a kept record to its origin, only resource vertices of kept records carry
\* attributes, and with every record dropped the graph has no vertex and no edge.
C5_OnlyKeptRecordsInGraph ==
    \A gr \in GraphsInHand :
        /\ GetVertices(gr) \subseteq
              { vertexNameFromResource(resources[i]) : i \in Kept }
              \cup { vertexNameFromOrigin(resources[i].origin) : i \in KeptWithOrigin }
        /\ \A k \in 1..Len(GetEdges(gr)) :
              \E i \in KeptWithOrigin :
                 /\ GetEdges(gr)[k].from = vertexNameFromResource(resources[i])
                 /\ GetEdges(gr)[k].to = vertexNameFromOrigin(resources[i].origin)
        /\ \A n \in GetVertices(gr) :
              gr.vertices[n] # EmptyMap =>
                 \E i \in Kept : n = vertexNameFromResource(resources[i])
        /\ Kept = {} => (GetVertices(gr) = {} /\ GetEdges(gr) = <<>>)

\* C5 witness: Parse returned a graph after taking a dropped record whose origin
\* vertex is not in the graph, and a kept record whose vertex is.
C5_Witness ==
    /\ pc = "done"
    /\ \E i \in 1..Len(resources) :
          /\ i \notin Kept
          /\ resources[i].origin.tag = "ok"
          /\ \A gr \in out.g :
                vertexNameFromOrigin(resources[i].origin) \notin GetVertices(gr)
    /\ \E i \in Kept :
          \A gr \in out.g : vertexNameFromResource(resources[i]) \in GetVertices(gr)

\* C8: after the build, the resource vertex of a kept record whose lower-cased kind
\* has an entry in highlightKindMap has that colour as color and fillcolor, also
\* when its lower-cased namespace has an entry in highlightNamespaceMap; the
\* namespace colour is the final value when no kind entry matches.
C8_KindColourWins ==
    pc = "done" =>
        \A gr \in out.g : \A i \in Kept :
            LET r     == resources[i]
                attrs == gr.vertices[vertexNameFromResource(r)]
                kind  == ToLower(r.kind)
                ns    == ToLower(r.namespace)
            IN  IF kind \in DOMAIN p.highlightKindMap
                THEN /\ {"color", "fillcolor"} \subseteq DOMAIN attrs
                     /\ attrs["color"] = p.highlightKindMap[kind]
                     /\ attrs["fillcolor"] = p.highlightKindMap[kind]
                ELSE ns \in DOMAIN p.highlightNamespaceMap =>
                     /\ {"color", "fillcolor"} \subseteq DOMAIN attrs
                     /\ attrs["color"] = p.highlightNamespaceMap[ns]
                     /\ attrs["fillcolor"] = p.highlightNamespaceMap[ns]

\* C8 witness: Parse returned a graph holding the vertex of a kept record whose kind
\* and namespace both have a highlight entry, of different colours.
C8_Witness ==
    /\ pc = "done"
    /\ \E i \in Kept :
          LET r == resources[i]
          IN  /\ ToLower(r.kind) \in DOMAIN p.highlightKindMap
              /\ ToLower(r.namespace) \in DOMAIN p.highlightNamespaceMap
              /\ p.highlightKindMap[ToLower(r.kind)]
                    # p.highlightNamespaceMap[ToLower(r.namespace)]
              /\ \A gr \in out.g :
                    gr.vertices[vertexNameFromResource(r)]["color"]
                       = p.highlightKindMap[ToLower(r.kind)]

\* C9: if reading the origin fails for a record Parse asks for it, the build stops
\* at that record and Parse returns the error with a nil graph: what earlier
\* records added is not returned.
C9_OriginErrorAborts ==
    /\ \A i \in Kept :
          resources[i].origin.tag = "err" =>
             /\ i = Len(resources)
             /\ pc = "failed"
    /\ pc = "failed" =>
          /\ out.g = {}
          /\ out.err # {}
          /\ Len(resources) \in Kept
          /\ resources[Len(resources)].origin.tag = "err"

\* C9 witness: Parse failed on its second record, after the first had put a vertex
\* and an edge into the graph.
C9_Witness ==
    /\ pc = "failed"
    /\ Len(resources) >= 2
    /\ GetVertices(g) # {}
    /\ Len(GetEdges(g)) >= 1
    /\ out.g = {}

\* the configuration says nothing about the layout
LayoutOmitted ==
    \/ entry = "New" /\ ~layoutGiven
    \/ entry = "plugin" /\ config.Spec.Layout = ""

\* C10: when the configuration omits the layout (New without WithLayoutDirection;
\* in plugin mode, a spec with no layout key), the graph a successful build returns
\* has rankdir "LR".
C10_DefaultLayoutLR ==
    (pc = "done" /\ LayoutOmitted) =>
        \A gr \in out.g :
            /\ "rankdir" \in DOMAIN gr.DotAttributes
            /\ gr.DotAttributes["rankdir"] = "LR"

---------------------------------------------------------------------------
(* The helpers of the commands (cmd/kustomize-dot/utils.go)                *)

\* strings.Split(s, sep) for a non-empty sep: the parts of s between the
\* occurrences of sep, from left to right
RECURSIVE Split(_, _)
Split(s, sep) ==
    IF s = "" THEN <<"">>
    ELSE IF HasPrefix(s, sep)
    THEN <<"">> \o Split(SubSeq(s, Len(sep) + 1, Len(s)), sep)
    ELSE LET rest == Split(Tail(s), sep)
         IN  <<SubSeq(s, 1, 1) \o rest[1]>> \o Tail(rest)

kvSeparator == "="

errInvalidKV == "invalid key/value pair"

errUnsupportedLayout == "unsupported graph layout"

\* a slip: everything after the first separator is the value
parseKV_FirstSeparatorOnly(val) ==
    LET parts == Split(val, kvSeparator)
    IN  IF Len(parts) < 2
        THEN [pair |-> {}, err |-> {errInvalidKV}]
        ELSE [pair |-> {[key |-> parts[1],
                         val |-> SubSeq(val, Len(parts[1]) + 2, Len(val))]},
              err |-> {}]

\* parseKV: (pair, err), each {} (nil) or a singleton
parseKV(val) ==
    LET parts == Split(val, kvSeparator)
    IN  IF Len(parts) # 2
        THEN [pair |-> {}, err |-> {errInvalidKV}]
        ELSE [pair |-> {[key |-> parts[1], val |-> parts[2]]}, err |-> {}]

\* parseKV(values...), as the generate command calls it: the pairs of the values
\* in order, or the error of the first value that is not a pair
RECURSIVE parseKVs(_)
parseKVs(values) ==
    IF values = <<>> THEN [pairs |-> <<>>, err |-> {}]
    ELSE LET first == parseKV(Head(values))
         IN  IF first.err # {}
             THEN [pairs |-> <<>>, err |-> first.err]
             ELSE LET rest == parseKVs(Tail(values))
                  IN  IF rest.err # {}
                      THEN rest
                      ELSE [pairs |-> <<CHOOSE kv \in first.pair : TRUE>> \o rest.pairs,
                            err |-> {}]

supportedLayouts ==
    <<LayoutDirectionBT, LayoutDirectionTB, LayoutDirectionLR, LayoutDirectionRL>>

\* getLayoutDirection: (layout, err)
getLayoutDirection(ctx) ==
    LET layout == ctx.layout
    IN  IF ~Contains(supportedLayouts, layout)
        THEN [layout |-> "", err |-> {errUnsupportedLayout}]
        ELSE [layout |-> layout, err |-> {}]

---------------------------------------------------------------------------
(* The options a command collects: opts []parser.Option, and New(opts...)  *)

Option(with, a, b) == [with |-> with, a |-> a, b |-> b]

\* opt(p) for one option of the slice
ApplyOption(q, o) ==
    CASE o.with = "WithLayoutDirection"    -> WithLayoutDirection(q, o.a)
      [] o.with = "WithHighlightKind"      -> WithHighlightKind(q, o.a, o.b)
      [] o.with = "WithHighlightNamespace" -> WithHighlightNamespace(q, o.a, o.b)
      [] o.with = "WithDropKind"           -> WithDropKind(q, o.a)
      [] o.with = "WithDropNamespace"      -> WithDropNamespace(q, o.a)
      [] o.with = "WithKeepKind"           -> WithKeepKind(q, o.a)
      [] o.with = "WithKeepNamespace"      -> WithKeepNamespace(q, o.a)

\* for _, opt := range opts { opt(p) }
RECURSIVE ApplyOptions(_, _)
ApplyOptions(q, opts) ==
    IF opts = <<>> THEN q ELSE ApplyOptions(ApplyOption(q, Head(opts)), Tail(opts))

\* the options of a list of strings, and of a list of key/value pairs
OptionsOf(with, list) == [i \in 1..Len(list) |-> Option(with, list[i], "")]

OptionsOfPairs(with, pairs) ==
    [i \in 1..Len(pairs) |-> Option(with, pairs[i].key, pairs[i].val)]

\* the orders in which a range over a Go map with key set S may visit the keys
Orders(S) ==
    { sq \in [1..Cardinality(S) -> S] : \A i, j \in 1..Cardinality(S) : sq[i] = sq[j] => i = j }

\* graph.WriteDot(g, w): the text written for a graph, a set of lines: the
\* graph's attributes, a line per vertex with its attributes, a line per edge
\* with its attributes
DotText(gr) ==
    [ graph    |-> gr.DotAttributes,
      vertices |-> { [name |-> n, attrs |-> gr.vertices[n]] : n \in GetVertices(gr) },
      edges    |-> { GetEdges(gr)[k] : k \in 1..Len(GetEdges(gr)) } ]

---------------------------------------------------------------------------
(* The generate command (execGenerateCommand).  arg is the cli.Context:    *)
(* the values of the flags.  The options collected so far are held applied *)
(* to p, as New(opts...) will apply them.                                  *)
(*   pc = "generate"             about to validate the layout             *)
(*   pc = "highlight-kind"       about to parse the highlight-kind pairs   *)
(*   pc = "highlight-namespace"  about to parse the highlight-namespace    *)
(*   pc = "filters"              about to collect the keep/drop options    *)
(*   pc = "read"                 about to load the resources               *)
(*   pc = "new", "loop", "done", "failed"   Parse, as above                *)
(*   pc = "exit"                 the command returned                      *)

\* the command returns err
ReturnError(err) ==
    /\ cmd' = [cmd EXCEPT !.err = err]
    /\ pc' = "exit"

GenerateLayout ==
    /\ pc = "generate"
    /\ LET res == getLayoutDirection(arg)
       IN  /\ ret' = [fn |-> "getLayoutDirection", val |-> res]
           /\ IF res.err # {}
              THEN ReturnError(res.err) /\ p' = p
              ELSE /\ p' = ApplyOptions(p, <<Option("WithLayoutDirection", res.layout, "")>>)
                   /\ pc' = "highlight-kind"
                   /\ cmd' = cmd
    /\ UNCHANGED <<entry, config, nopts, layoutGiven, resources, g, out, arg>>

GenerateHighlightKind ==
    /\ pc = "highlight-kind"
    /\ LET res == parseKVs(arg.highlightKind)
       IN  /\ ret' = [fn |-> "parseKV", args |-> arg.highlightKind, val |-> res]
           /\ IF res.err # {}
              THEN ReturnError(res.err) /\ p' = p
              ELSE /\ p' = ApplyOptions(p, OptionsOfPairs("WithHighlightKind", res.pairs))
                   /\ pc' = "highlight-namespace"
                   /\ cmd' = cmd
    /\ UNCHANGED <<entry, config, nopts, layoutGiven, resources, g, out, arg>>

GenerateHighlightNamespace ==
    /\ pc = "highlight-namespace"
    /\ LET res == parseKVs(arg.highlightNamespace)
       IN  /\ ret' = [fn |-> "parseKV", args |-> arg.highlightNamespace, val |-> res]
           /\ IF res.err # {}
              THEN ReturnError(res.err) /\ p' = p
              ELSE /\ p' = ApplyOptions(p, OptionsOfPairs("WithHighlightNamespace", res.pairs))
                   /\ pc' = "filters"
                   /\ cmd' = cmd
    /\ UNCHANGED <<entry, config, nopts, layoutGiven, resources, g, out, arg>>

GenerateFilters ==
    /\ pc = "filters"
    /\ p' = ApplyOptions(p, OptionsOf("WithDropKind", arg.dropKind)
                            \o OptionsOf("WithDropNamespace", arg.dropNamespace)
                            \o OptionsOf("WithKeepKind", arg.keepKind)
                            \o OptionsOf("WithKeepNamespace", arg.keepNamespace))
    /\ pc' = "read"
    /\ UNCHANGED <<entry, config, nopts, layoutGiven, resources, g, out, arg, ret, cmd>>

\* the outcomes of a call that returns an error or nil
MayFail(e) == {{}, {e}}

\* with file "-" the error of io.ReadAll is overwritten by that of
\* ResourcesFromBytes, which is given what was read; otherwise ResourcesFromPath
GenerateRead ==
    /\ pc = "read"
    /\ IF arg.file = "-"
       THEN \E readErr \in MayFail("read stdin"), err \in MayFail("parse resources") :
               /\ ret' = [fn |-> "io.ReadAll", val |-> [err |-> readErr]]
               /\ IF err # {}
                  THEN ReturnError(err)
                  ELSE pc' = "new" /\ cmd' = cmd
       ELSE \E err \in MayFail("read file") :
               /\ ret' = [fn |-> "ResourcesFromPath", val |-> [err |-> err]]
               /\ IF err # {}
                  THEN ReturnError(err)
                  ELSE pc' = "new" /\ cmd' = cmd
    /\ UNCHANGED <<entry, config, p, nopts, layoutGiven, resources, g, out, arg>>

\* Parse returned an error: return err
GenerateParseFailed ==
    /\ pc = "failed"
    /\ entry = "generate"
    /\ ReturnError(out.err)
    /\ UNCHANGED <<entry, config, p, nopts, layoutGiven, resources, g, out, arg, ret>>

\* what a failed write may have left on the writer
PartialText == "digraph"

\* return graph.WriteDot(g, os.Stdout)
GenerateWrite ==
    /\ pc = "done"
    /\ entry = "generate"
    /\ \E gr \in out.g :
          \/ cmd' = [cmd EXCEPT !.stdout = <<DotText(gr)>>]
          \/ \E written \in {<<>>, <<PartialText>>} :
                cmd' = [cmd EXCEPT !.err = {"write"}, !.stdout = written]
    /\ pc' = "exit"
    /\ UNCHANGED <<entry, config, p, nopts, layoutGiven, resources, g, out, arg, ret>>

---------------------------------------------------------------------------
(* The plugin command (execPluginCommand).  arg.doc is the function config *)
(* document the framework loads into config before it calls the filter.    *)
(*   pc = "plugin-config"  the framework is about to load the config       *)
(*   pc = "plugin-opts"    the filter is about to build its options        *)
(*   pc = "plugin-read"    the filter is about to read the items           *)
(*   pc = "new", "loop", "done", "failed"   Parse, as above                *)
(*   pc = "exit"           the filter returned                             *)

\* the value of a struct field tagged yaml:"tag": the document's value under
\* that key, the zero value if the document has no such key
Field(m, tag, zero) == IF tag \in DOMAIN m THEN m[tag] ELSE zero

\* var config pluginConfig, loaded from the document; keys no field is tagged
\* with are ignored
Unmarshal(doc) ==
    LET spec == Field(doc, "spec", EmptyMap)
    IN  [Spec |->
            [ Layout              |-> Field(spec, "layout", ""),
              HighlightKinds      |-> Field(spec, "highlightKinds", EmptyMap),
              HighlightNamespaces |-> Field(spec, "highlightNamespaces", EmptyMap),
              DropKinds           |-> Field(spec, "dropKinds", <<>>),
              DropNamespaces      |-> Field(spec, "dropNamespaces", <<>>),
              KeepKinds           |-> Field(spec, "keepKinds", <<>>),
              KeepNamespaces      |-> Field(spec, "keepNamespace", <<>>) ]]

ZeroPluginConfig == Unmarshal(EmptyMap)

PluginLoadConfig ==
    /\ pc = "plugin-config"
    /\ config' = Unmarshal(arg.doc)
    /\ pc' = "plugin-opts"
    /\ UNCHANGED <<entry, p, nopts, layoutGiven, resources, g, out, arg, ret, cmd>>

\* the options of a map's entries, visited in the order given
OptionsOfMap(with, m, order) ==
    [i \in 1..Len(order) |-> Option(with, order[i], m[order[i]])]

\* the filter's options: the layout, whatever it is, then the highlights in the
\* order the two maps happen to be ranged over, then the keep and drop lists
PluginFilterOptions ==
    /\ pc = "plugin-opts"
    /\ \E hkOrder \in Orders(DOMAIN config.Spec.HighlightKinds),
          hnOrder \in Orders(DOMAIN config.Spec.HighlightNamespaces) :
          p' = ApplyOptions(p,
                  <<Option("WithLayoutDirection", config.Spec.Layout, "")>>
                  \o OptionsOfMap("WithHighlightKind", config.Spec.HighlightKinds, hkOrder)
                  \o OptionsOfMap("WithHighlightNamespace",
                                  config.Spec.HighlightNamespaces, hnOrder)
                  \o OptionsOf("WithDropKind", config.Spec.DropKinds)
                  \o OptionsOf("WithDropNamespace", config.Spec.DropNamespaces)
                  \o OptionsOf("WithKeepKind", config.Spec.KeepKinds)
                  \o OptionsOf("WithKeepNamespace", config.Spec.KeepNamespaces))
    /\ pc' = "plugin-read"
    /\ UNCHANGED <<entry, config, nopts, layoutGiven, resources, g, out, arg, ret, cmd>>

\* resources, err := parser.ResourcesFromRNodes(items)
PluginRead ==
    /\ pc = "plugin-read"
    /\ \E err \in MayFail("cannot parse resources") :
          /\ ret' = [fn |-> "ResourcesFromRNodes", val |-> [err |-> err]]
          /\ IF err # {}
             THEN ReturnError(err)
             ELSE pc' = "new" /\ cmd' = cmd
    /\ UNCHANGED <<entry, config, p, nopts, layoutGiven, resources, g, out, arg>>

PluginParseFailed ==
    /\ pc = "failed"
    /\ entry = "plugin"
    /\ ReturnError({"cannot generate graph"})
    /\ UNCHANGED <<entry, config, p, nopts, layoutGiven, resources, g, out, arg, ret>>

\* the ConfigMap the filter returns for the text in its buffer
DotConfigMap(text) ==
    [ apiVersion |-> "v1",
      kind       |-> "ConfigMap",
      metadata   |-> [name |-> "kustomize-dot", namespace |-> "default"],
      data       |-> [dot |-> text] ]

\* a slip: the ConfigMap is appended to the items the filter was given
PluginItems_KeepsInput(items, text) == items \o <<DotConfigMap(text)>>

\* the items the filter returns when everything succeeded
PluginItems(items, text) == <<DotConfigMap(text)>>

\* graph.WriteDot(g, &buf), then the ConfigMap is made and returned
PluginReturn ==
    /\ pc = "done"
    /\ entry = "plugin"
    /\ \E gr \in out.g :
          \/ cmd' = [cmd EXCEPT !.items = PluginItems(resources, DotText(gr))]
          \/ cmd' = [cmd EXCEPT !.err = {"write"}]
    /\ pc' = "exit"
    /\ UNCHANGED <<entry, config, p, nopts, layoutGiven, resources, g, out, arg, ret>>

---------------------------------------------------------------------------
(* SpecCommand: one run of the generate command or of the plugin command   *)

\* the longest highlight value drawn letter by letter, and the most records
MaxKVLen == 3

MaxCmdRecords == 2

KVChars == {"k", "="}

\* the strings over KVChars of length at most n
RECURSIVE StringsUpTo(_)
StringsUpTo(n) ==
    IF n = 0 THEN {""}
    ELSE LET shorter == StringsUpTo(n - 1)
         IN  shorter \cup { c \o t : c \in KVChars, t \in shorter }

KVStrings == StringsUpTo(MaxKVLen)

HighlightKindValues ==
    {<<>>} \cup { <<v>> : v \in KVStrings }
    \cup { <<"ConfigMap=red">>, <<"ConfigMap=red", "configmap=blue">>,
           <<"ConfigMap=red", "Service">>, <<"ConfigMap", "Service=blue">> }

HighlightNamespaceValues ==
    { <<>>, <<"default=blue">>, <<"default">>, <<"default=blue", "a=b=c">> }

GenerateLayouts == {"LR", "BT", "sideways"}

GenerateContexts ==
    [ layout             : GenerateLayouts,
      highlightKind      : HighlightKindValues,
      highlightNamespace : HighlightNamespaceValues,
      dropKind           : {<<>>, <<"Service">>},
      dropNamespace      : {<<>>},
      keepKind           : {<<>>},
      keepNamespace      : {<<>>, <<"default">>},
      file               : {"-", "resources.yaml"} ]

\* a key of a YAML mapping that is present with value v, or absent
Present(key, v) == key :> v

Absent == EmptyMap

PluginSpecs ==
    { layout @@ hk @@ dk @@ kns @@ kn :
        layout \in {Absent, Present("layout", "BT"), Present("layout", "sideways")},
        hk  \in {Absent, Present("highlightKinds", "ConfigMap" :> "red"),
                 Present("highlightKinds", "ConfigMap" :> "red" @@ "configmap" :> "blue")},
        dk  \in {Absent, Present("dropKinds", <<"Service">>)},
        kns \in {Absent, Present("keepNamespaces", <<"default">>)},
        kn  \in {Absent, Present("keepNamespace", <<"default">>)} }

PluginDocs == { Present("spec", spec) : spec \in PluginSpecs }

LocalOrigin(path) == Origin(path, "", "", "", NoConfiguredBy)

\* the records of an input: three whose origin is a local file, one whose
\* origin cannot be read
CmdRecords ==
    { Resource("ConfigMap", "default", "app", LocalOrigin("configmap.yaml")),
      Resource("Service", "default", "app", LocalOrigin("service.yaml")),
      Resource("Deployment", "kube-system", "app", LocalOrigin("deployment.yaml")),
      Resource("Secret", "default", "app", ErrOrigin) }

InitCommand ==
    /\ entry \in {"generate", "plugin"}
    /\ IF entry = "generate"
       THEN pc = "generate" /\ arg \in GenerateContexts
       ELSE pc = "plugin-config" /\ arg \in [doc : PluginDocs]
    /\ config = ZeroPluginConfig
    /\ p = NewParser
    /\ nopts = 0
    /\ layoutGiven = FALSE
    /\ IdleBuild
    /\ IdleCommand
    /\ ret = NoRet

NextCommand ==
    \/ GenerateLayout
    \/ GenerateHighlightKind
    \/ GenerateHighlightNamespace
    \/ GenerateFilters
    \/ GenerateRead
    \/ PluginLoadConfig
    \/ PluginFilterOptions
    \/ PluginRead
    \/ ParseStart
    \/ ParseRecordOf(CmdRecords, MaxCmdRecords)
    \/ ParseReturn
    \/ GenerateParseFailed
    \/ GenerateWrite
    \/ PluginParseFailed
    \/ PluginReturn

SpecCommand == InitCommand /\ [][NextCommand]_vars

---------------------------------------------------------------------------
(* Claims about the commands *)

\* the caller supplied a layout direction that is none of TB, BT, LR, RL
UnrecognizedLayoutSupplied ==
    \/ /\ entry = "generate"
       /\ arg.layout \notin {"TB", "BT", "LR", "RL"}
    \/ /\ entry = "plugin"
       /\ "layout" \in DOMAIN arg.doc["spec"]
       /\ arg.doc["spec"]["layout"] \notin {"TB", "BT", "LR", "RL"}

\* C11: an unrecognized layout direction supplied through the generate command's
\* --layout flag or the plugin spec's layout field fails the whole call with an
\* error before any record is processed: Parse never takes a record, no graph is
\* returned, nothing is written and no item is returned.
C11_UnrecognizedLayoutFails ==
    UnrecognizedLayoutSupplied =>
        /\ pc \notin {"loop", "done", "failed"}
        /\ resources = <<>>
        /\ out = NotReturned
        /\ cmd.stdout = <<>>
        /\ cmd.items = <<>>
        /\ pc = "exit" => cmd.err # {}

\* the number of "=" in a string
RECURSIVE CountSeparators(_)
CountSeparators(v) ==
    IF v = "" THEN 0
    ELSE (IF SubSeq(v, 1, 1) = "=" THEN 1 ELSE 0)
         + CountSeparators(SubSeq(v, 2, Len(v)))

IsPair(v) == CountSeparators(v) = 1

\* C12: parseKV succeeds exactly when its input holds exactly one "=", with key
\* the text before it and val the text after it (either may be empty); any other
\* input gives the invalid key/value pair error and no pair; in the generate
\* command such an error in a highlight option is returned before any resource
\* is read and before Parse runs.
C12_ParseKV ==
    /\ ret.fn = "parseKV" =>
          LET values == ret.args
              res    == ret.val
          IN  IF \A i \in 1..Len(values) : IsPair(values[i])
              THEN /\ res.err = {}
                   /\ Len(res.pairs) = Len(values)
                   /\ \A i \in 1..Len(values) :
                         /\ res.pairs[i].key \o "=" \o res.pairs[i].val = values[i]
                         /\ CountSeparators(res.pairs[i].key) = 0
                         /\ CountSeparators(res.pairs[i].val) = 0
              ELSE /\ res.err = {"invalid key/value pair"}
                   /\ res.pairs = <<>>
    /\ ( /\ entry = "generate"
         /\ \E values \in {arg.highlightKind, arg.highlightNamespace} :
               \E i \in 1..Len(values) : ~IsPair(values[i]) )
       => /\ pc \notin {"read", "new", "loop", "done", "failed"}
          /\ ret.fn \notin {"io.ReadAll", "ResourcesFromPath"}
          /\ resources = <<>>
          /\ out = NotReturned
          /\ cmd.stdout = <<>>
          /\ pc = "exit" =>
                cmd.err = IF arg.layout \in {"TB", "BT", "LR", "RL"}
                          THEN {"invalid key/value pair"}
                          ELSE {"unsupported graph layout"}

\* C12 witness: the generate command parsed "=" into a pair with an empty key
\* and an empty value, and then returned the invalid key/value pair error for a
\* highlight-namespace value with two separators, having read nothing.
C12_Witness ==
    /\ entry = "generate"
    /\ pc = "exit"
    /\ arg.highlightKind = <<"=">>
    /\ p.highlightKindMap = MapPut(EmptyMap, "", "")
    /\ ret.fn = "parseKV"
    /\ ret.args = <<"default=blue", "a=b=c">>
    /\ ret.val.err = {"invalid key/value pair"}
    /\ cmd.err = {"invalid key/value pair"}
    /\ resources = <<>>

---------------------------------------------------------------------------
(* Further claims about the keep/drop policy (SpecPolicy) *)

\* the step applied WithDropKind or WithDropNamespace
DropOptionStep ==
    /\ p' # p
    /\ p'.keepResourceKinds = p.keepResourceKinds
    /\ p'.keepNamespaces = p.keepNamespaces

\* C13: shouldDropResource is monotonic in the drop lists: when an entry is added
\* to dropKinds or dropNamespaces, every record that was dropped before is still
\* dropped, and every record whose lower-cased kind (resp. namespace) is the
\* entry added is dropped.
C13_DropListMonotonic ==
    [][ DropOptionStep =>
          \A r \in PolicyRecords :
             /\ shouldDropResource(p, r) => shouldDropResource(p', r)
             /\ ( /\ Len(p'.dropResourceKinds) > Len(p.dropResourceKinds)
                  /\ p'.dropResourceKinds[Len(p'.dropResourceKinds)] = ToLower(r.kind) )
                => shouldDropResource(p', r)
             /\ ( /\ Len(p'.dropNamespaces) > Len(p.dropNamespaces)
                  /\ p'.dropNamespaces[Len(p'.dropNamespaces)] = ToLower(r.namespace) )
                => shouldDropResource(p', r)
      ]_vars

\* C13 witness: a record that the keep rules alone would keep has been dropped,
\* by a drop-kind entry added after the keep entries that match it.
C13_Witness ==
    /\ ret.fn = "shouldDropResource"
    /\ ret.val = TRUE
    /\ p.keepNamespaces # <<>>
    /\ p.keepResourceKinds # <<>>
    /\ p.dropNamespaces = <<>>
    /\ p.dropResourceKinds = <<ToLower(arg.r.kind)>>
    /\ ~shouldDropResource([p EXCEPT !.dropResourceKinds = <<>>], arg.r)

---------------------------------------------------------------------------
(* SpecParse: TestParse.  A parser is made with the options of the test    *)
(* cases and Parse is run on records like those of the hello-world fixture *)

\* the most options, and the most records, of a test case
MaxTestOpts == 1

MaxTestRecords == 3

\* the hello-world resources: a ConfigMap, a Service and a Deployment of the
\* default namespace, each from its own local file; a second Service from the
\* file of the first; a Secret whose origin has an empty path; and a Namespace
\* with no origin
TestRecords ==
    { Resource("ConfigMap", "default", "the-map", LocalOrigin("configMap.yaml")),
      Resource("Service", "default", "the-service", LocalOrigin("service.yaml")),
      Resource("Deployment", "default", "the-deployment", LocalOrigin("deployment.yaml")),
      Resource("Service", "default", "the-other-service", LocalOrigin("service.yaml")),
      Resource("Secret", "default", "the-secret", LocalOrigin("")),
      Resource("Namespace", "", "default", NilOrigin) }

InitParse ==
    /\ pc = "new"
    /\ IdleFrontEnd
    /\ IdleBuild
    /\ IdleCommand
    /\ p = NewParser
    /\ nopts = 0
    /\ arg = NoArg
    /\ ret = NoRet

NextParse ==
    \/ OptDropKind({"Service"}, MaxTestOpts)
    \/ OptDropNamespace({"default"}, MaxTestOpts)
    \/ OptKeepNamespace({"foobar"}, MaxTestOpts)
    \/ ParseStart
    \/ ParseRecordOf(TestRecords, MaxTestRecords)
    \/ ParseReturn

SpecParse == InitParse /\ [][NextParse]_vars

\* every record of the input has an origin, and the names of the resource
\* vertices and origin vertices of the input are pairwise distinct
AllNamesDistinct ==
    /\ \A i \in 1..Len(resources) : resources[i].origin.tag = "ok"
    /\ Cardinality({ vertexNameFromResource(resources[i]) : i \in 1..Len(resources) }
                   \cup { vertexNameFromOrigin(resources[i].origin) :
                             i \in 1..Len(resources) })
          = 2 * Len(resources)

\* every origin of the input is a local file with no generator
AllOriginsLocal ==
    \A i \in 1..Len(resources) :
        /\ resources[i].origin.Repo = ""
        /\ resources[i].origin.ConfiguredIn = ""

\* C15: for an input whose records all have an origin and whose resource and
\* origin vertex names are pairwise distinct, Parse returns a graph of exactly 2k
\* vertices and k edges, k being the number of records the policy keeps; when
\* every origin is a local file with no generator every edge label is "".
C15_TwoVerticesPerKeptRecord ==
    (pc = "done" /\ AllNamesDistinct) =>
        \A gr \in out.g :
            /\ Cardinality(GetVertices(gr)) = 2 * Cardinality(Kept)
            /\ Len(GetEdges(gr)) = Cardinality(Kept)
            /\ AllOriginsLocal =>
                  \A k \in 1..Len(GetEdges(gr)) :
                      GetEdges(gr)[k].DotAttributes = MapPut(EmptyMap, "label", "")

\* C15 witness: Parse returned 4 vertices and 2 edges for the ConfigMap, the
\* Service and the Deployment with WithDropKind("Service").
C15_Witness ==
    /\ pc = "done"
    /\ AllNamesDistinct
    /\ Len(resources) = 3
    /\ p.dropResourceKinds = <<"service">>
    /\ \A gr \in out.g :
          /\ Cardinality(GetVertices(gr)) = 4
          /\ Len(GetEdges(gr)) = 2

---------------------------------------------------------------------------
(* SpecCase: a parser is made with options whose kinds and namespaces are  *)
(* written in any letter case, then asked about a record.                  *)

MaxCaseOpts == 2

CaseRecords ==
    { Resource(k, ns, "x", NilOrigin) : k \in {"ConfigMap", "Service"}, ns \in {"", "Default"} }

CaseKindArgs == {"CONFIGMAP", "service"}

CaseNamespaceArgs == {"DEFAULT", "kube-system"}

\* the attributes of the vertex before it is painted: none (a vertex just added),
\* or some written earlier
CaseAttrs ==
    { EmptyMap,
      "shape" :> "box",
      "color" :> "green" @@ "fillcolor" :> "green" @@ "shape" :> "box" }

InitCase ==
    /\ pc = "new"
    /\ IdleFrontEnd
    /\ IdleBuild
    /\ IdleCommand
    /\ p = NewParser
    /\ nopts = 0
    /\ arg \in [r : CaseRecords, origin : {NilOrigin}, attrs : CaseAttrs]
    /\ ret = NoRet

\* applyHighlights on a vertex whose attributes are arg.attrs
CallApplyHighlights ==
    /\ pc = "new"
    /\ pc' = "called"
    /\ ret' = [fn |-> "applyHighlights", val |-> applyHighlights(p, arg.attrs, arg.r)]
    /\ UNCHANGED <<entry, config, p, nopts, layoutGiven, resources, g, out, arg, cmd>>

NextCase ==
    \/ OptHighlightKind(CaseKindArgs, Colors, MaxCaseOpts)
    \/ OptHighlightNamespace(CaseNamespaceArgs, Colors, MaxCaseOpts)
    \/ OptDropKind(CaseKindArgs, MaxCaseOpts)
    \/ OptKeepKind(CaseKindArgs, MaxCaseOpts)
    \/ OptDropNamespace(CaseNamespaceArgs, MaxCaseOpts)
    \/ OptKeepNamespace(CaseNamespaceArgs, MaxCaseOpts)
    \/ CallShouldDropResource
    \/ CallApplyHighlights

SpecCase == InitCase /\ [][NextCase]_vars

\* the upper-case form of a string
UpperChar(c) ==
    IF \E u \in DOMAIN LowerOf : LowerOf[u] = c
    THEN CHOOSE u \in DOMAIN LowerOf : LowerOf[u] = c
    ELSE c

RECURSIVE ToUpper(_)
ToUpper(v) ==
    IF v = "" THEN "" ELSE UpperChar(SubSeq(v, 1, 1)) \o ToUpper(SubSeq(v, 2, Len(v)))

\* a string in other letter cases: as is, lower, upper, and capitalised
CaseVariants(v) ==
    { v, ToLower(v), ToUpper(v),
      IF v = "" THEN "" ELSE UpperChar(SubSeq(v, 1, 1)) \o ToLower(SubSeq(v, 2, Len(v))) }

RecordCaseVariants(r) ==
    { [r EXCEPT !.kind = k, !.namespace = ns] :
        k \in CaseVariants(r.kind), ns \in CaseVariants(r.namespace) }

\* the last entry of a list that grew in the step, as a set
Added(before, after) ==
    IF Len(after) > Len(before) THEN {after[Len(after)]} ELSE {}

\* the key of a map that was set in the step, as a set
KeysSet(before, after) ==
    { k \in DOMAIN after : k \notin DOMAIN before \/ before[k] # after[k] }

\* the step's option, given its kind or namespace in another letter case, leaves
\* the same parser
OptionCaseInsensitive ==
    /\ \A e \in Added(p.dropResourceKinds, p'.dropResourceKinds) :
          \A x \in CaseVariants(e) : WithDropKind(p, x) = p'
    /\ \A e \in Added(p.keepResourceKinds, p'.keepResourceKinds) :
          \A x \in CaseVariants(e) : WithKeepKind(p, x) = p'
    /\ \A e \in Added(p.dropNamespaces, p'.dropNamespaces) :
          \A x \in CaseVariants(e) : WithDropNamespace(p, x) = p'
    /\ \A e \in Added(p.keepNamespaces, p'.keepNamespaces) :
          \A x \in CaseVariants(e) : WithKeepNamespace(p, x) = p'
    /\ \A e \in KeysSet(p.highlightKindMap, p'.highlightKindMap) :
          \A x \in CaseVariants(e) :
             WithHighlightKind(p, x, p'.highlightKindMap[e]) = p'
    /\ \A e \in KeysSet(p.highlightNamespaceMap, p'.highlightNamespaceMap) :
          \A x \in CaseVariants(e) :
             WithHighlightNamespace(p, x, p'.highlightNamespaceMap[e]) = p'

\* the decision and the colours are those of the record in any letter case
RecordCaseInsensitive ==
    /\ ret.fn = "shouldDropResource" =>
          \A v \in RecordCaseVariants(arg.r) : shouldDropResource(p, v) = ret.val
    /\ ret.fn = "applyHighlights" =>
          \A v \in RecordCaseVariants(arg.r) : applyHighlights(p, arg.attrs, v) = ret.val

\* C16: every comparison of a record's kind or namespace against the
\* configuration is case-insensitive: changing the letter case of the record's
\* kind or namespace, or of the kind or namespace given to WithDropKind,
\* WithDropNamespace, WithKeepKind, WithKeepNamespace, WithHighlightKind or
\* WithHighlightNamespace, changes neither the keep/drop decision nor the colour
\* applied to the record's vertex.
C16_CaseInsensitive ==
    /\ []RecordCaseInsensitive
    /\ [][OptionCaseInsensitive]_vars

\* C16 witness: a record of kind "ConfigMap" in namespace "Default" has been
\* painted with the colour given for kind "CONFIGMAP", with a colour given for
\* namespace "DEFAULT" as well.
C16_Witness ==
    /\ ret.fn = "applyHighlights"
    /\ arg.r.kind = "ConfigMap"
    /\ arg.r.namespace = "Default"
    /\ "configmap" \in DOMAIN p.highlightKindMap
    /\ "default" \in DOMAIN p.highlightNamespaceMap
    /\ "color" \in DOMAIN ret.val
    /\ ret.val["color"] = p.highlightKindMap["configmap"]

---------------------------------------------------------------------------
(* Further claims about the commands (SpecCommand) *)

\* the namespaces the caller asks to keep: the --keep-namespace values, or the
\* list under the keepNamespaces key of the plugin's spec
KeepNamespacesAsked ==
    IF entry = "generate"
    THEN arg.keepNamespace
    ELSE Field(arg.doc["spec"], "keepNamespaces", <<>>)

\* C17: the namespaces listed under keepNamespaces in the plugin's spec restrict
\* the graph as repeated --keep-namespace options do in the generate command: a
\* namespaced record whose namespace is not listed is absent from the graph
\* Parse returns.
C17_PluginKeepNamespaces ==
    KeepNamespacesAsked # <<>> =>
        \A gr \in out.g : \A i \in 1..Len(resources) :
            ( /\ resources[i].namespace # ""
              /\ \A k \in 1..Len(KeepNamespacesAsked) :
                    ToLower(KeepNamespacesAsked[k]) # ToLower(resources[i].namespace) )
            => vertexNameFromResource(resources[i]) \notin GetVertices(gr)

\* C18: when the plugin's filter has read its items and built the graph, it
\* returns exactly one item, a ConfigMap named kustomize-dot whose data key dot
\* holds the DOT text of the graph, and none of the items it was given; when
\* reading the items, building the graph or writing the DOT text fails, it
\* returns an error and no items.
C18_PluginReturnsOneConfigMap ==
    (entry = "plugin" /\ pc = "exit") =>
        /\ IF cmd.err = {}
           THEN /\ Len(cmd.items) = 1
                /\ cmd.items[1].kind = "ConfigMap"
                /\ cmd.items[1].metadata.name = "kustomize-dot"
                /\ \E gr \in out.g : cmd.items[1].data.dot = DotText(gr)
           ELSE cmd.items = <<>>
        /\ ret.val.err # {} => cmd.err # {}
        /\ out.err # {} => cmd.err # {}
        /\ (ret.val.err = {} /\ out.g # {}) => cmd.err \in {{}, {"write"}}

\* C18 witness: the filter returned the ConfigMap for a graph built from two
\* items, which holds an edge.
C18_Witness ==
    /\ entry = "plugin"
    /\ pc = "exit"
    /\ cmd.err = {}
    /\ Len(resources) = 2
    /\ Len(cmd.items) = 1
    /\ cmd.items[1].data.dot.edges # {}

---------------------------------------------------------------------------
(* Further claims about the build (Spec) *)

\* an edge as (from, to, label)
EdgeOf(e) == <<e.from, e.to, e.DotAttributes>>

\* C19: in the graph Parse works on and in the graph it returns, the edges are
\* exactly those from the resource vertex of a kept record with an origin to that
\* record's origin vertex, each with a label attribute equal to the computed edge
\* label; a kept record without an origin has its resource vertex but adds no
\* edge; and both endpoints of every edge are vertices of the graph.
C19_EdgesOfKeptRecords ==
    \A gr \in GraphsInHand :
        /\ { EdgeOf(GetEdges(gr)[k]) : k \in 1..Len(GetEdges(gr)) }
              = { << vertexNameFromResource(resources[i]),
                     vertexNameFromOrigin(resources[i].origin),
                     MapPut(EmptyMap, "label", edgeLabelFromOrigin(resources[i].origin)) >> :
                  i \in KeptWithOrigin }
        /\ \A i \in Kept : vertexNameFromResource(resources[i]) \in GetVertices(gr)
        /\ \A k \in 1..Len(GetEdges(gr)) :
              /\ GetEdges(gr)[k].from \in GetVertices(gr)
              /\ GetEdges(gr)[k].to \in GetVertices(gr)

\* C19 witness: Parse returned a graph with the vertex of a kept record that has
\* no origin, and a single edge, labelled with the repository and ref of the
\* other record's origin.
C19_Witness ==
    /\ pc = "done"
    /\ Cardinality(Kept) = 2
    /\ \E i \in Kept : resources[i].origin.tag = "nil"
    /\ \A gr \in out.g :
          /\ Len(GetEdges(gr)) = 1
          /\ GetEdges(gr)[1].DotAttributes["label"] = "github.com/dnaeon/kustomize-dot (ref v1)"
          /\ Cardinality(GetVertices(gr)) = 3

\* C20: Parse fails if and only if reading the origin fails for a record the
\* policy keeps: a dropped record never makes it fail, even when its origin
\* cannot be read, and no record is processed after the first kept record whose
\* origin cannot be read.
C20_FailsOnlyOnKeptRecord ==
    pc \in {"loop", "done", "failed"} =>
        /\ pc = "failed" <=> \E i \in Kept : resources[i].origin.tag = "err"
        /\ out.err # {} <=> pc = "failed"
        /\ \A i \in Kept : resources[i].origin.tag = "err" => i = Len(resources)

\* C20 witness: Parse returned a graph although the first record's origin cannot
\* be read: the policy drops that record, and the second record is in the graph.
C20_Witness ==
    /\ pc = "done"
    /\ Len(resources) = 2
    /\ resources[1].origin.tag = "err"
    /\ 1 \notin Kept
    /\ 2 \in Kept
    /\ out.err = {}
    /\ \A gr \in out.g : vertexNameFromResource(resources[2]) \in GetVertices(gr)

\* C21: the graph's rankdir attribute is written only after every record has been
\* processed: it is unset in every intermediate state of the build (and in the
\* graph of a build that failed), and in every graph Parse returns, also one built
\* from no record or from records that were all dropped, it is the string form of
\* the parser's layout direction.
C21_RankdirWrittenLast ==
    /\ pc \in {"loop", "failed"} => "rankdir" \notin DOMAIN g.DotAttributes
    /\ pc = "done" =>
          \A gr \in out.g :
             /\ "rankdir" \in DOMAIN gr.DotAttributes
             /\ gr.DotAttributes["rankdir"] = p.layoutDirection

\* C21 witness: Parse returned a graph with no vertex and rankdir "TB" for an input
\* whose records were all dropped, by a parser given WithLayoutDirection("TB").
C21_Witness ==
    /\ pc = "done"
    /\ layoutGiven
    /\ p.layoutDirection = "TB"
    /\ Len(resources) >= 1
    /\ Kept = {}
    /\ \A gr \in out.g :
          /\ GetVertices(gr) = {}
          /\ gr.DotAttributes["rankdir"] = "TB"

---------------------------------------------------------------------------
(* Further claims about Parse on the test's records (SpecParse) *)

\* the origin has an empty path, no repo and no configuredIn
BareOrigin(o) ==
    /\ o.tag = "ok"
    /\ o.Path = ""
    /\ o.Repo = ""
    /\ o.ConfiguredIn = ""

\* C22: a kept record whose origin has an empty path, no repo and no configuredIn
\* does not fail the build: the graph gets a vertex named "", an edge from the
\* record's resource vertex to it with label "", and Parse goes on.
C22_EmptyOriginName ==
    \A i \in Kept :
        BareOrigin(resources[i].origin) =>
            /\ pc \in {"loop", "done"}
            /\ out.err = {}
            /\ \A gr \in GraphsInHand :
                  /\ "" \in GetVertices(gr)
                  /\ \E k \in 1..Len(GetEdges(gr)) :
                        /\ GetEdges(gr)[k].from = vertexNameFromResource(resources[i])
                        /\ GetEdges(gr)[k].to = ""
                        /\ GetEdges(gr)[k].DotAttributes["label"] = ""

\* C22 witness: Parse returned a graph after a record whose origin has an empty
\* path and then another record, both kept and both in the graph.
C22_Witness ==
    /\ pc = "done"
    /\ Len(resources) >= 2
    /\ 1 \in Kept
    /\ 2 \in Kept
    /\ BareOrigin(resources[1].origin)
    /\ ~BareOrigin(resources[2].origin)
    /\ \A gr \in out.g :
          /\ "" \in GetVertices(gr)
          /\ vertexNameFromResource(resources[2]) \in GetVertices(gr)

---------------------------------------------------------------------------
(* Further claims about the highlights (SpecCase) *)

\* C23: applyHighlights leaves the vertex's attributes as they are when neither
\* highlightNamespaceMap has an entry for the record's lower-cased namespace nor
\* highlightKindMap one for its lower-cased kind; when an entry matches, it writes
\* the keys color and fillcolor only, and every other key keeps its value.
C23_HighlightsFrame ==
    ret.fn = "applyHighlights" =>
        LET before == arg.attrs
            after  == ret.val
        IN  IF /\ ToLower(arg.r.namespace) \notin DOMAIN p.highlightNamespaceMap
               /\ ToLower(arg.r.kind) \notin DOMAIN p.highlightKindMap
            THEN after = before
            ELSE /\ DOMAIN after = DOMAIN before \cup {"color", "fillcolor"}
                 /\ \A k \in DOMAIN before \ {"color", "fillcolor"} : after[k] = before[k]

\* C23 witness: a vertex with a shape and a green colour has been painted red, and
\* kept its shape.
C23_Witness ==
    /\ ret.fn = "applyHighlights"
    /\ "color" \in DOMAIN arg.attrs
    /\ arg.attrs["color"] = "green"
    /\ ret.val = ("color" :> "red" @@ "fillcolor" :> "red" @@ "shape" :> "box")

---------------------------------------------------------------------------
(* SpecConcurrent: two invocations of Parse at once.  Each has its own      *)
(* parser and its own records; the variables pc, p, resources, g and out    *)
(* hold one value per invocation.  A turn of the loop is taken in two       *)
(* steps, so that the other invocation may run in the middle of a turn      *)

Invocations == {1, 2}

\* the most records of an invocation
MaxConcRecords == 2

\* the options each caller gave to New
ConcOptions ==
    { <<>>,
      <<Option("WithDropKind", "Service", ""),
        Option("WithHighlightKind", "configmap", "red")>>,
      <<Option("WithLayoutDirection", LayoutDirectionTB, "")>> }

\* the records of the callers: the two callers may hand in the same record
ConcRecords ==
    { Resource("ConfigMap", "default", "app", RemoteOrigin),
      Resource("Service", "default", "app", ErrOrigin),
      Resource("Namespace", "", "default", NilOrigin) }

\* a slip: g is a package-level variable, the same for every invocation
LocalGraph_PackageLevel(t) == 1

\* g is a local variable of Parse: invocation t has its own
LocalGraph(t) == t

\* first half of a turn on a record the policy keeps: Add u to the graph, and
\* paint the vertex
ParseVertexInto(q, gr, r) ==
    LET uName == vertexNameFromResource(r)
        g1    == AddVertex(gr, uName)
    IN  [g1 EXCEPT !.vertices[uName] = applyHighlights(q, @, r)]

\* second half of the turn: Add v to the graph, which represents the resource
\* origin, and the edge; what Parse returns if the turn returns
ParseOriginInto(q, gr, r) ==
    LET origin == GetOrigin(r)
    IN  IF origin.tag = "err"
        THEN [g |-> gr, out |-> ParseErr("GetOrigin")]
        ELSE IF origin.tag = "nil"
        THEN [g |-> gr, out |-> NotReturned]
        ELSE LET uName == vertexNameFromResource(r)
                 vName == vertexNameFromOrigin(origin)
                 g3    == AddVertex(gr, vName)
             IN  [g |-> AddEdgeLabelled(g3, uName, vName, edgeLabelFromOrigin(origin)),
                  out |-> NotReturned]

\* Parse as one caller runs it, from the first record to the return
RECURSIVE ParseLoop(_, _, _)
ParseLoop(q, gr, rs) ==
    IF rs = <<>>
    THEN [g |-> gr, out |-> NotReturned]
    ELSE LET step == ParseRecordInto(q, gr, Head(rs))
         IN  IF step.out # NotReturned THEN step ELSE ParseLoop(q, step.g, Tail(rs))

Parse(q, rs) ==
    LET loop == ParseLoop(q, GraphNew, rs)
    IN  IF loop.out # NotReturned THEN loop.out ELSE ParseOk(ParseFinish(q, loop.g))

InitConcurrent ==
    /\ pc = [t \in Invocations |-> "new"]
    /\ \E opts \in [Invocations -> ConcOptions] :
          p = [t \in Invocations |-> ApplyOptions(NewParser, opts[t])]
    /\ resources = [t \in Invocations |-> <<>>]
    /\ g = [t \in Invocations |-> GraphNew]
    /\ out = [t \in Invocations |-> NotReturned]
    /\ IdleFrontEnd
    /\ IdleCommand
    /\ nopts = 0
    /\ arg = NoArg
    /\ ret = NoRet

\* invocation t enters Parse: g := graph.New[string](graph.KindDirected)
InvocationStart ==
    \E t \in Invocations :
        /\ pc[t] = "new"
        /\ pc' = [pc EXCEPT ![t] = "loop"]
        /\ g' = [g EXCEPT ![LocalGraph(t)] = GraphNew]
        /\ UNCHANGED <<entry, config, p, nopts, layoutGiven, resources, out, arg, ret, cmd>>

\* invocation t takes its next record, r: it drops it, or adds and paints u
InvocationVertex ==
    \E t \in Invocations :
        /\ pc[t] = "loop"
        /\ Len(resources[t]) < MaxConcRecords
        /\ \E r \in ConcRecords :
              /\ resources' = [resources EXCEPT ![t] = Append(@, r)]
              /\ IF shouldDropResource(p[t], r)
                 THEN UNCHANGED <<pc, g>>
                 ELSE /\ g' = [g EXCEPT ![LocalGraph(t)] =
                                   ParseVertexInto(p[t], g[LocalGraph(t)], r)]
                      /\ pc' = [pc EXCEPT ![t] = "origin"]
        /\ UNCHANGED <<entry, config, p, nopts, layoutGiven, out, arg, ret, cmd>>

\* invocation t finishes the turn on its last record
InvocationOrigin ==
    \E t \in Invocations :
        /\ pc[t] = "origin"
        /\ LET r    == resources[t][Len(resources[t])]
               step == ParseOriginInto(p[t], g[LocalGraph(t)], r)
           IN  /\ g' = [g EXCEPT ![LocalGraph(t)] = step.g]
               /\ out' = [out EXCEPT ![t] = step.out]
               /\ pc' = [pc EXCEPT ![t] = IF step.out = NotReturned THEN "loop" ELSE "failed"]
        /\ UNCHANGED <<entry, config, p, nopts, layoutGiven, resources, arg, ret, cmd>>

\* the input of invocation t is exhausted: it writes rankdir and returns g
InvocationReturn ==
    \E t \in Invocations :
        /\ pc[t] = "loop"
        /\ g' = [g EXCEPT ![LocalGraph(t)] = ParseFinish(p[t], g[LocalGraph(t)])]
        /\ out' = [out EXCEPT ![t] = ParseOk(g'[LocalGraph(t)])]
        /\ pc' = [pc EXCEPT ![t] = "done"]
        /\ UNCHANGED <<entry, config, p, nopts, layoutGiven, resources, arg, ret, cmd>>

NextConcurrent ==
    \/ InvocationStart
    \/ InvocationVertex
    \/ InvocationOrigin
    \/ InvocationReturn

SpecConcurrent == InitConcurrent /\ [][NextConcurrent]_vars

\* what invocation t has returned is what Parse returns for its parser and its
\* records when no other invocation runs
ReturnsAsAlone ==
    \A t \in Invocations :
        /\ pc[t] \in {"done", "failed"} => out[t] = Parse(p[t], resources[t])
        /\ pc[t] \in {"new", "loop", "origin"} => out[t] = NotReturned

\* C24: two invocations of Parse that run at once, each with its own parser and
\* its own records, each return what the invocation returns when it runs alone,
\* however their steps interleave; and no step of Parse writes to a parser.
C24_ConcurrentParse == []ReturnsAsAlone /\ [][p' = p]_vars

\* C24 witness: both invocations are in the middle of a turn, with different
\* parsers, the first on its second record and with a painted vertex in hand.
C24_Witness ==
    /\ pc[1] = "origin"
    /\ pc[2] = "origin"
    /\ p[1] # p[2]
    /\ Len(resources[1]) = 2
    /\ \E v \in DOMAIN g[1].vertices : "color" \in DOMAIN g[1].vertices[v]

---------------------------------------------------------------------------
(* SpecNew: TestWithHighlightOptions.  A caller makes a slice of highlight *)
(* options and hands it to New                                             *)

\* the most options of a slice
MaxNewOpts == 2

\* the highlight options a caller may put in the slice
HighlightOptions ==
    { Option("WithHighlightKind", kind, color) :
         kind \in {"ConfigMap", "configmap", "Service"}, color \in Colors }
    \cup { Option("WithHighlightNamespace", "Default", color) : color \in Colors }

\* the slices of at most MaxNewOpts options
OptionSlices == UNION { [1..n -> HighlightOptions] : n \in 0..MaxNewOpts }

InitNew ==
    /\ pc = "new"
    /\ arg \in [opts : OptionSlices]
    /\ p = NewParser
    /\ nopts = 0
    /\ IdleFrontEnd
    /\ IdleBuild
    /\ IdleCommand
    /\ ret = NoRet

\* p := New(opts...)
CallNew ==
    /\ pc = "new"
    /\ pc' = "called"
    /\ p' = ApplyOptions(NewParser, arg.opts)
    /\ nopts' = Len(arg.opts)
    /\ UNCHANGED <<entry, config, layoutGiven, resources, g, out, arg, ret, cmd>>

NextNew == CallNew

SpecNew == InitNew /\ [][NextNew]_vars

\* the places of the slice opts holding an option made by `with` whose key
\* lower-cases to key
PlacesOf(opts, with, key) ==
    { i \in 1..Len(opts) : opts[i].with = with /\ ToLower(opts[i].a) = key }

\* the map the options made by `with` describe: the lower-cased keys, each with
\* the colour of the last option for it
MapOfOptions(opts, with) ==
    [ key \in { ToLower(opts[i].a) : i \in { j \in 1..Len(opts) : opts[j].with = with } } |->
        LET last == CHOOSE i \in PlacesOf(opts, with, key) :
                        \A j \in PlacesOf(opts, with, key) : j <= i
        IN  opts[last].b ]

\* C25: after New(opts...), highlightKindMap holds exactly the lower-cased keys of
\* the WithHighlightKind options, each with the colour of the last such option for
\* the key, and highlightNamespaceMap the same of the WithHighlightNamespace
\* options; so with no highlight option both are empty, and an option of one axis
\* does not show in the map of the other.
C25_HighlightMapsAfterNew ==
    pc = "called" =>
        /\ p.highlightKindMap = MapOfOptions(arg.opts, "WithHighlightKind")
        /\ p.highlightNamespaceMap = MapOfOptions(arg.opts, "WithHighlightNamespace")

\* C25 witness: New was given the kind ConfigMap in red and then configmap in
\* blue, and the map holds configmap in blue alone.
C25_Witness ==
    /\ pc = "called"
    /\ arg.opts = <<Option("WithHighlightKind", "ConfigMap", "red"),
                    Option("WithHighlightKind", "configmap", "blue")>>
    /\ p.highlightKindMap = MapPut(EmptyMap, "configmap", "blue")
    /\ p.highlightNamespaceMap = EmptyMap

---------------------------------------------------------------------------
(* Further claims about the generate command (SpecCommand) *)

\* the options of the command line pass validation
OptionsValid ==
    /\ getLayoutDirection(arg).err = {}
    /\ parseKVs(arg.highlightKind).err = {}
    /\ parseKVs(arg.highlightNamespace).err = {}

\* the resources were asked for, and reading or decoding them failed
LoadFailed ==
    \/ ret.fn \in {"io.ReadAll", "ResourcesFromPath"} /\ ret.val.err # {}
    \/ cmd.err = {"parse resources"}

\* C26: the generate command writes DOT text only after the layout is validated,
\* every highlight pair is parsed, the resources are loaded and Parse has
\* returned a graph, in that order; when one of these steps fails the command
\* returns the error and nothing is written to standard output.
C26_WritesAfterEveryStep ==
    entry = "generate" =>
        /\ ret.fn \in {"io.ReadAll", "ResourcesFromPath"} => OptionsValid
        /\ pc \in {"loop", "done", "failed"} => OptionsValid /\ ~LoadFailed
        /\ cmd.stdout # <<>> =>
              /\ OptionsValid
              /\ ~LoadFailed
              /\ out.err = {}
              /\ out.g # {}
        /\ (~OptionsValid \/ LoadFailed \/ out.err # {}) =>
              /\ cmd.stdout = <<>>
              /\ pc = "exit" => cmd.err # {}

\* C30: with --file "-", when reading standard input fails the generate command
\* returns the read error at once: Parse takes no record of what was read and
\* no graph is written.
C30_StdinReadErrorReturned ==
    (entry = "generate" /\ ret.fn = "io.ReadAll" /\ ret.val.err # {}) =>
        /\ pc = "exit"
        /\ cmd.err = ret.val.err
        /\ resources = <<>>
        /\ out = NotReturned
        /\ cmd.stdout = <<>>

---------------------------------------------------------------------------
(* Further claims about the colours of the build (Spec) *)

\* record r has a highlight entry of colour c, by its kind or by its namespace
HasHighlight(r, c) ==
    \/ /\ ToLower(r.kind) \in DOMAIN p.highlightKindMap
       /\ p.highlightKindMap[ToLower(r.kind)] = c
    \/ /\ ToLower(r.namespace) \in DOMAIN p.highlightNamespaceMap
       /\ p.highlightNamespaceMap[ToLower(r.namespace)] = c

\* C27: all through the build and in the graph returned, a vertex has neither
\* color nor fillcolor, or both with one value; a vertex with a color is the
\* resource vertex of a kept record whose lower-cased kind or namespace has a
\* highlight entry of that colour, so a vertex that stands for an origin only has
\* no color.
C27_ColourPairs ==
    \A gr \in GraphsInHand : \A v \in GetVertices(gr) :
        LET attrs == gr.vertices[v]
        IN  /\ "color" \in DOMAIN attrs <=> "fillcolor" \in DOMAIN attrs
            /\ "color" \in DOMAIN attrs =>
                  /\ attrs["color"] = attrs["fillcolor"]
                  /\ \E i \in Kept :
                        /\ vertexNameFromResource(resources[i]) = v
                        /\ HasHighlight(resources[i], attrs["color"])

\* C27 witness: Parse returned a graph with a coloured resource vertex and its
\* origin vertex, which has no colour.
C27_Witness ==
    /\ pc = "done"
    /\ \E gr \in out.g : \E i \in KeptWithOrigin :
          /\ "color" \in DOMAIN gr.vertices[vertexNameFromResource(resources[i])]
          /\ "color" \notin DOMAIN gr.vertices[vertexNameFromOrigin(resources[i].origin)]

\* the parsers that differ from q in the highlights and the layout at most
RepaintedParsers(q) ==
    { [q EXCEPT !.highlightKindMap = c.hk, !.highlightNamespaceMap = c.hn,
                !.layoutDirection = c.l] :
         c \in { [hk |-> EmptyMap, hn |-> EmptyMap, l |-> LayoutDirectionLR],
                 [hk |-> MapPut(EmptyMap, "configmap", "red"), hn |-> EmptyMap,
                  l |-> LayoutDirectionTB],
                 [hk |-> EmptyMap, hn |-> MapPut(EmptyMap, "default", "blue"),
                  l |-> LayoutDirectionLR] } }

\* what Parse returned, without the colours and the layout: the error, or the
\* vertex names and the edges with their labels
Structure(o) ==
    [ err      |-> o.err,
      vertices |-> { GetVertices(gr) : gr \in o.g },
      edges    |-> { [k \in 1..Len(GetEdges(gr)) |->
                         <<GetEdges(gr)[k].from, GetEdges(gr)[k].to,
                           GetEdges(gr)[k].DotAttributes["label"]>>] : gr \in o.g } ]

\* C28: the highlights and the layout direction have no part in the structure of
\* the graph: for the records Parse was given, a parser that differs from p in
\* highlightKindMap, highlightNamespaceMap or layoutDirection only gives the same
\* vertices, the same edges with the same labels, and fails when p's Parse fails.
C28_StructureIgnoresColours ==
    pc \in {"done", "failed"} =>
        \A q \in RepaintedParsers(p) :
            Structure(Parse(q, resources)) = Structure(out)

\* C28 witness: Parse returned a graph with an edge and a coloured vertex, under
\* a layout other than the default, for a parser that also filters.
C28_Witness ==
    /\ pc = "done"
    /\ p.layoutDirection # LayoutDirectionLR
    /\ p.highlightKindMap # EmptyMap
    /\ Kept # {}
    /\ Kept # 1..Len(resources)
    /\ \E gr \in out.g :
          /\ GetEdges(gr) # <<>>
          /\ \E v \in GetVertices(gr) : "color" \in DOMAIN gr.vertices[v]

---------------------------------------------------------------------------
(* Further claims about the policy (SpecPolicy) *)

\* the lists with the entries of list, in any order, an entry repeated at most
\* once more
Arrangements(list) ==
    { s \in UNION { [1..n -> Entries(list)] : n \in 0..(Len(list) + 1) } :
         Entries(s) = Entries(list) }

\* the parsers whose keep and drop lists hold the entries of q's, rearranged
RearrangedParsers(q) ==
    { [q EXCEPT !.dropResourceKinds = dk, !.dropNamespaces = dn,
                !.keepResourceKinds = kk, !.keepNamespaces = kn] :
         dk \in Arrangements(q.dropResourceKinds),
         dn \in Arrangements(q.dropNamespaces),
         kk \in Arrangements(q.keepResourceKinds),
         kn \in Arrangements(q.keepNamespaces) }

\* C29: the decision of shouldDropResource rests on which entries the keep and
\* drop lists hold, not on their order or on an entry being given twice: for
\* every parser whose four lists hold the same entries as p's, in any order and
\* with repetitions, the decision on the record is the one p gave.
C29_ListOrderIrrelevant ==
    ret.fn = "shouldDropResource" =>
        \A q \in RearrangedParsers(p) : shouldDropResource(q, arg.r) = ret.val

\* C29 witness: a decision was given by a parser that keeps two namespaces, the
\* record's being the second, so that another order of the list has the record's
\* namespace first.
C29_Witness ==
    /\ ret.fn = "shouldDropResource"
    /\ ret.val = FALSE
    /\ Len(p.keepNamespaces) = 2
    /\ p.keepNamespaces[1] # p.keepNamespaces[2]
    /\ p.keepNamespaces[2] = ToLower(arg.r.namespace)

=============================================================================
